---------------------------- MODULE Spec2Model ----------------------------
(***************************************************************************)
(* The ECMAScript module resolver of lib/internal/modules/esm/resolve.js.  *)
(*                                                                         *)
(* Strings are TLA+ strings; JavaScript's 0-based string primitives are    *)
(* defined on them below.  A URL is a record [protocol, pathname, rest],   *)
(* rest being the search and hash text; NewURL is the WHATWG parser for    *)
(* the file: inputs the resolver builds.  A resolution outcome is a record *)
(* [k, url, code, visited, probes, warns].                                 *)
(***************************************************************************)
EXTENDS Integers, Sequences, FiniteSets, TLC

VARIABLES pc, op, args, ret, emittedPackageWarnings

vars == <<pc, op, args, ret, emittedPackageWarnings>>

(***************************************************************************)
(* Bounds of the model.                                                    *)
(***************************************************************************)
MaxListLen == 2
MaxMapLen == 2
MaxKeys == 2
MaxDepth == 3

(***************************************************************************)
(* JavaScript string primitives.                                           *)
(***************************************************************************)
At(s, i) == SubSeq(s, i, i)

StringPrototypeSlice(s, from, to) == SubSeq(s, from + 1, to)

SliceFrom(s, from) == SubSeq(s, from + 1, Len(s))

StringPrototypeStartsWith(s, p) ==
  Len(p) <= Len(s) /\ SubSeq(s, 1, Len(p)) = p

StringPrototypeEndsWith(s, p) ==
  Len(p) <= Len(s) /\ SubSeq(s, Len(s) - Len(p) + 1, Len(s)) = p

StringPrototypeIndexOf(s, c) ==
  IF \E i \in 1..Len(s) : At(s, i) = c
  THEN (CHOOSE i \in 1..Len(s) :
          At(s, i) = c /\ \A j \in 1..(i - 1) : At(s, j) # c) - 1
  ELSE -1

StringPrototypeLastIndexOf(s, c) ==
  IF \E i \in 1..Len(s) : At(s, i) = c
  THEN (CHOOSE i \in 1..Len(s) :
          At(s, i) = c /\ \A j \in (i + 1)..Len(s) : At(s, j) # c) - 1
  ELSE -1

StringPrototypeIncludes(s, c) == StringPrototypeIndexOf(s, c) # -1

\* A replacement that stops after the first '*'.
ReplaceAllStarsOnce(s, by) ==
  IF StringPrototypeIndexOf(s, "*") = -1 THEN s
  ELSE StringPrototypeSlice(s, 0, StringPrototypeIndexOf(s, "*")) \o by
         \o SliceFrom(s, StringPrototypeIndexOf(s, "*") + 1)


\* s.replace(/\*/g, () => by): every '*' of s replaced by the text by.
RECURSIVE ReplaceAllStars(_, _)
ReplaceAllStars(s, by) ==
  IF s = "" THEN ""
  ELSE (IF At(s, 1) = "*" THEN by ELSE At(s, 1))
         \o ReplaceAllStars(SliceFrom(s, 1), by)

\* s.replace('*', () => by): the first '*' of s replaced.
ReplaceFirstStar(s, by) ==
  LET i == StringPrototypeIndexOf(s, "*")
  IN  IF i = -1 THEN s
      ELSE StringPrototypeSlice(s, 0, i) \o by \o SliceFrom(s, i + 1)

IsDelim(c) == c = "/" \/ c = "\\"

\* The text of s split at every '/' and '\': the segments the regular
\* expressions of the resolver and the URL parser look at.
RECURSIVE SplitSegs(_, _, _)
SplitSegs(s, i, cur) ==
  IF i > Len(s) THEN <<cur>>
  ELSE IF IsDelim(At(s, i)) THEN <<cur>> \o SplitSegs(s, i + 1, "")
  ELSE SplitSegs(s, i + 1, cur \o At(s, i))

Segments(s) == SplitSegs(s, 1, "")

LowerChar(c) ==
  CASE c = "N" -> "n" [] c = "O" -> "o" [] c = "D" -> "d" [] c = "E" -> "e"
    [] c = "M" -> "m" [] c = "U" -> "u" [] c = "L" -> "l" [] c = "S" -> "s"
    [] c = "F" -> "f" [] c = "C" -> "c" [] c = "A" -> "a" [] c = "B" -> "b"
    [] OTHER -> c

RECURSIVE LowerCase(_)
LowerCase(s) ==
  IF s = "" THEN "" ELSE LowerChar(At(s, 1)) \o LowerCase(SliceFrom(s, 1))

(***************************************************************************)
(* Percent-encoded text.  PctCode gives the character a %XX triple stands  *)
(* for, for the triples the resolver's regular expressions and the URL     *)
(* parser single out.                                                      *)
(***************************************************************************)
HexChar(t) ==
  CASE t = "%2e" -> "."
    [] t = "%6e" -> "n" [] t = "%4e" -> "N"
    [] t = "%6f" -> "o" [] t = "%4f" -> "O"
    [] t = "%64" -> "d" [] t = "%44" -> "D"
    [] t = "%65" -> "e" [] t = "%45" -> "E"
    [] t = "%5f" -> "_"
    [] t = "%6d" -> "m" [] t = "%4d" -> "M"
    [] t = "%75" -> "u" [] t = "%55" -> "U"
    [] t = "%6c" -> "l" [] t = "%4c" -> "L"
    [] t = "%73" -> "s" [] t = "%53" -> "S"
    [] t = "%25" -> "%" [] t = "%3f" -> "?" [] t = "%23" -> "#"
    [] t = "%2f" -> "/" [] t = "%5c" -> "\\"
    [] OTHER -> ""

\* The letter an alternative (x|%hh|%HH) of invalidSegmentRegEx stands for.
PctCode(t) ==
  IF HexChar(t) \in {"%", "?", "#", "/", "\\"} THEN "" ELSE LowerChar(HexChar(t))

\* A segment with the alternatives of invalidSegmentRegEx folded: each of
\* (n|%6e|%4e), (\.|%2e), ... read as its letter, case ignored (flag i).
RECURSIVE FoldSegment(_)
FoldSegment(seg) ==
  IF seg = "" THEN ""
  ELSE IF At(seg, 1) = "%" /\ Len(seg) >= 3
            /\ PctCode(LowerCase(SubSeq(seg, 1, 3))) # ""
       THEN PctCode(LowerCase(SubSeq(seg, 1, 3)))
              \o FoldSegment(SliceFrom(seg, 3))
       ELSE LowerChar(At(seg, 1)) \o FoldSegment(SliceFrom(seg, 1))

BadSegment(seg) == FoldSegment(seg) \in {".", "..", "node_modules"}

\* /(^|\\|\/)((\.|%2e)(\.|%2e)?|node_modules)(\\|\/|$)/i matches s.
deprecatedInvalidSegmentRegEx(s) ==
  \E i \in 1..Len(Segments(s)) : BadSegment(Segments(s)[i])

\* /(^|\\|\/)((\.|%2e)(\.|%2e)?|node_modules)?(\\|\/|$)/i matches s: the
\* group is optional, so an empty segment matches too.
invalidSegmentRegEx(s) ==
  \E i \in 1..Len(Segments(s)) :
     Segments(s)[i] = "" \/ BadSegment(Segments(s)[i])

\* As encodedSepRegEx, but without the flag i: /%2F|%5C/.
encodedSepRegExCaseSensitive(s) ==
  \E i \in 1..(Len(s) - 2) : SubSeq(s, i, i + 2) \in {"%2F", "%5C"}

\* /%2F|%5C/i matches s.
encodedSepRegEx(s) ==
  \E i \in 1..(Len(s) - 2) : LowerCase(SubSeq(s, i, i + 2)) \in {"%2f", "%5c"}

\* /^\.|%|\\/ matches s.
invalidPackageNameRegEx(s) ==
  \/ StringPrototypeStartsWith(s, ".")
  \/ StringPrototypeIncludes(s, "%")
  \/ StringPrototypeIncludes(s, "\\")

(***************************************************************************)
(* URLs.                                                                   *)
(***************************************************************************)
URLOf(protocol, pathname, rest) ==
  [protocol |-> protocol, pathname |-> pathname, rest |-> rest]

NoURL == URLOf("", "", "")

Href(u) ==
  IF u.protocol = "file:" THEN "file://" \o u.pathname \o u.rest
  ELSE IF "host" \in DOMAIN u
  THEN u.protocol \o "//" \o u.host \o u.pathname \o u.rest
  ELSE u.protocol \o u.pathname \o u.rest

IsSingleDot(seg) == LowerCase(seg) \in {".", "%2e"}

IsDoubleDot(seg) == LowerCase(seg) \in {"..", ".%2e", "%2e.", "%2e%2e"}

\* The index (1-based) of the first '?' or '#' of s, or Len(s) + 1.
PathEnd(s) ==
  IF \E i \in 1..Len(s) : At(s, i) \in {"?", "#"}
  THEN CHOOSE i \in 1..Len(s) :
         At(s, i) \in {"?", "#"} /\ \A j \in 1..(i - 1) : At(s, j) \notin {"?", "#"}
  ELSE Len(s) + 1

Pop(stack) == IF stack = <<>> THEN <<>> ELSE SubSeq(stack, 1, Len(stack) - 1)

\* The path state of the URL parser on the raw segments raw[i..]: dot
\* segments are dropped, double-dot segments shorten the path, and a dot
\* segment that ends the input leaves an empty last segment.
RECURSIVE PathState(_, _, _)
PathState(stack, raw, i) ==
  IF i > Len(raw) THEN stack
  ELSE LET seg == raw[i]
           closing == IF i = Len(raw) THEN <<"">> ELSE <<>>
       IN  IF IsDoubleDot(seg) THEN PathState(Pop(stack) \o closing, raw, i + 1)
           ELSE IF IsSingleDot(seg) THEN PathState(stack \o closing, raw, i + 1)
           ELSE PathState(Append(stack, seg), raw, i + 1)

RECURSIVE JoinPath(_)
JoinPath(stack) ==
  IF stack = <<>> THEN "" ELSE "/" \o Head(stack) \o JoinPath(Tail(stack))

PathSegs(pathname) == Tail(Segments(pathname))

\* new URL(input, base) for a file: base, and new URL(input) for an input
\* that is a file: href.
NewURL(input, base) ==
  LET abs   == StringPrototypeStartsWith(input, "file://")
      text  == IF abs THEN SliceFrom(input, 7) ELSE input
      cut   == PathEnd(text)
      ptext == SubSeq(text, 1, cut - 1)
      rest  == SubSeq(text, cut, Len(text))
      raw   == Segments(ptext)
      root  == ptext # "" /\ IsDelim(At(ptext, 1))
      start == IF abs \/ root THEN <<>> ELSE Pop(PathSegs(base.pathname))
      segs  == IF root THEN PathState(start, Tail(raw), 1)
               ELSE PathState(start, raw, 1)
  IN  IF input = "" THEN base
      ELSE URLOf("file:", JoinPath(segs), rest)

\* pathToFileURL escapes the characters a path may hold and a URL path
\* may not.
RECURSIVE EncodePathChars(_)
EncodePathChars(path) ==
  IF path = "" THEN ""
  ELSE (CASE At(path, 1) = "%" -> "%25"
          [] At(path, 1) = "?" -> "%3F"
          [] At(path, 1) = "#" -> "%23"
          [] At(path, 1) = "\\" -> "%5C"
          [] OTHER -> At(path, 1))
         \o EncodePathChars(SliceFrom(path, 1))

pathToFileURL(path) == URLOf("file:", EncodePathChars(path), "")

\* decodeURIComponent on the pathname.
RECURSIVE PercentDecode(_)
PercentDecode(s) ==
  IF s = "" THEN ""
  ELSE IF At(s, 1) = "%" /\ Len(s) >= 3
            /\ HexChar(LowerCase(SubSeq(s, 1, 3))) # ""
       THEN HexChar(LowerCase(SubSeq(s, 1, 3)))
              \o PercentDecode(SliceFrom(s, 3))
       ELSE At(s, 1) \o PercentDecode(SliceFrom(s, 1))

fileURLToPath(u) == PercentDecode(u.pathname)

(***************************************************************************)
(* Values of package.json fields.  An object keeps its entries in          *)
(* insertion order, as <<key, value>> pairs.                               *)
(***************************************************************************)
Str(s) == [t |-> "string", s |-> s]

Arr(items) == [t |-> "array", items |-> items]

Obj(entries) == [t |-> "object", entries |-> entries]

Null == [t |-> "null"]

Undefined == [t |-> "undefined"]

Num == [t |-> "number"]

IsDigit(c) == c \in {"0", "1", "2", "3", "4", "5", "6", "7", "8", "9"}

DigitValue(c) ==
  CASE c = "0" -> 0 [] c = "1" -> 1 [] c = "2" -> 2 [] c = "3" -> 3
    [] c = "4" -> 4 [] c = "5" -> 5 [] c = "6" -> 6 [] c = "7" -> 7
    [] c = "8" -> 8 [] OTHER -> 9

\* a < b for two decimal numerals without leading zeros.
NumeralLess(a, b) ==
  \/ Len(a) < Len(b)
  \/ /\ Len(a) = Len(b)
     /\ \E i \in 1..Len(a) :
          /\ SubSeq(a, 1, i - 1) = SubSeq(b, 1, i - 1)
          /\ DigitValue(At(a, i)) < DigitValue(At(b, i))

\* `${+key}` === key for a key written with digits only: a decimal numeral
\* without a leading zero.
IsNumeral(key) ==
  /\ key # ""
  /\ \A i \in 1..Len(key) : IsDigit(At(key, i))
  /\ (Len(key) > 1 => At(key, 1) # "0")

isArrayIndex(key) == IsNumeral(key) /\ NumeralLess(key, "4294967295")

Keys(obj) ==
  IF obj.t = "object" THEN [i \in 1..Len(obj.entries) |-> obj.entries[i][1]]
  ELSE <<>>

HasOwnProperty(obj, key) ==
  obj.t = "object" /\ \E i \in 1..Len(obj.entries) : obj.entries[i][1] = key

Get(obj, key) ==
  obj.entries[CHOOSE i \in 1..Len(obj.entries) : obj.entries[i][1] = key][2]

RECURSIVE SortNumerals(_)
SortNumerals(s) ==
  IF s = <<>> THEN <<>>
  ELSE LET m == CHOOSE i \in 1..Len(s) :
                  \A j \in 1..Len(s) : ~NumeralLess(s[j], s[i])
       IN  <<s[m]>> \o SortNumerals(SubSeq(s, 1, m - 1) \o SubSeq(s, m + 1, Len(s)))

\* Object.getOwnPropertyNames: the array-index keys in ascending order, then
\* the other keys in insertion order.
ObjectGetOwnPropertyNames(obj) ==
  LET IsIndex(k) == isArrayIndex(k)
      NotIndex(k) == ~isArrayIndex(k)
  IN  SortNumerals(SelectSeq(Keys(obj), IsIndex)) \o SelectSeq(Keys(obj), NotIndex)

(***************************************************************************)
(* The environment of a resolve: the file system, the package.json files   *)
(* the reader returns, the package scope of each base, and the set of      *)
(* deprecation keys already emitted.                                       *)
(***************************************************************************)
PackageConfig(exists, pjsonPath, name, main, exports, imports) ==
  [exists |-> exists, pjsonPath |-> pjsonPath, name |-> name, main |-> main,
   exports |-> exports, imports |-> imports]

NoConfig(pjsonPath) ==
  PackageConfig(FALSE, pjsonPath, "", "", Undefined, Undefined)

Env(dirs, files, pjson, scope, realpath, emitted) ==
  [dirs |-> dirs, files |-> files, pjson |-> pjson, scope |-> scope,
   realpath |-> realpath, emitted |-> emitted]

\* internalModuleStat: 1 for a directory, 0 for a file, negative otherwise.
internalModuleStat(env, path) ==
  IF path \in env.dirs THEN 1 ELSE IF path \in env.files THEN 0 ELSE -2

packageJsonReaderRead(env, path) ==
  IF path \in DOMAIN env.pjson THEN env.pjson[path] ELSE NoConfig(path)

getPackageScopeConfig(env, base) ==
  IF base.pathname \in DOMAIN env.scope THEN env.scope[base.pathname]
  ELSE NoConfig("")

realpathSync(env, path) ==
  IF path \in DOMAIN env.realpath THEN env.realpath[path] ELSE path

Builtins == {"fs", "fs/promises"}

canBeRequiredWithoutScheme(specifier) == specifier \in Builtins

(***************************************************************************)
(* Outcomes: what a resolver call returned or threw, the string targets    *)
(* it resolved, the paths it probed, the warnings it emitted, and the      *)
(* deprecation keys emitted when it ended.                                 *)
(***************************************************************************)
Outcome(env, k, url, code) ==
  [k |-> k, url |-> url, code |-> code, visited |-> <<>>, probes |-> <<>>,
   warns |-> <<>>, emitted |-> env.emitted]

Returns(env, url) == Outcome(env, "url", url, "")

ReturnsNull(env) == Outcome(env, "null", NoURL, "")

ReturnsUndefined(env) == Outcome(env, "undefined", NoURL, "")

Throws(env, code) == Outcome(env, "throw", NoURL, code)

\* The outcome o of a step that ran after the steps logged in prev.
After(prev, o) ==
  [o EXCEPT !.visited = prev.visited \o @, !.probes = prev.probes \o @,
            !.warns = prev.warns \o @]

Visiting(entry, o) == [o EXCEPT !.visited = <<entry>> \o @]

Warning(w, o) == [o EXCEPT !.warns = w \o @]

Probing(path, o) == [o EXCEPT !.probes = <<path>> \o @]

\* The environment a later step sees: the deprecation keys emitted so far.
EnvAfter(env, o) == [env EXCEPT !.emitted = o.emitted]

Rethrown(o, code) == [o EXCEPT !.k = "throw", !.url = NoURL, !.code = code]

(***************************************************************************)
(* Target resolution.                                                      *)
(***************************************************************************)
Alpha ==
  {"a", "b", "c", "d", "e", "f", "g", "h", "i", "j", "k", "l", "m", "n", "o",
   "p", "q", "r", "s", "t", "u", "v", "w", "x", "y", "z"}

\* URL.canParse(s) for a string without a base: s starts with a scheme, and
\* a special scheme other than file: is followed by a host.
URLCanParse(s) ==
  LET colon == StringPrototypeIndexOf(s, ":")
      scheme == StringPrototypeSlice(s, 0, colon)
      after == SliceFrom(s, colon + 1)
  IN  /\ colon >= 1
      /\ LowerChar(At(s, 1)) \in Alpha
      /\ \A i \in 1..colon :
           LowerChar(At(s, i)) \in Alpha \/ IsDigit(At(s, i)) \/ At(s, i) \in {"+", "-", "."}
      /\ (LowerCase(scheme) \in {"http", "https", "ws", "wss", "ftp"}
            => \E i \in 1..Len(after) : ~IsDelim(At(after, i)))

RECURSIVE resolvePackageTarget(_, _, _, _, _, _, _, _, _, _)
RECURSIVE packageResolve(_, _, _, _)

resolvePackageTargetString(env, target, subpath, match, packageJSONUrl, base, pattern, internal, isPathMap, conditions) ==
  LET entry == [target |-> target, subpath |-> subpath, match |-> match,
                pattern |-> pattern]
      invalidPackageTarget == Throws(env, "ERR_INVALID_PACKAGE_TARGET")
      remainder == SliceFrom(target, 2)
      targetWarning ==
        IF invalidSegmentRegEx(remainder) /\ ~isPathMap
        THEN <<"DEP0166">> ELSE <<>>
      resolved == NewURL(target, packageJSONUrl)
      resolvedPath == resolved.pathname
      packagePath == NewURL(".", packageJSONUrl).pathname
      subpathWarning ==
        IF invalidSegmentRegEx(subpath) /\ ~isPathMap
        THEN <<"DEP0166">> ELSE <<>>
  IN  Visiting(entry,
        IF subpath # "" /\ ~pattern /\ ~StringPrototypeEndsWith(target, "/")
        THEN invalidPackageTarget
        ELSE IF ~StringPrototypeStartsWith(target, "./")
        THEN IF /\ internal
                /\ ~StringPrototypeStartsWith(target, "../")
                /\ ~StringPrototypeStartsWith(target, "/")
                /\ ~URLCanParse(target)
             THEN packageResolve(
                    env,
                    IF pattern THEN ReplaceAllStars(target, subpath)
                    ELSE target \o subpath,
                    packageJSONUrl, conditions)
             ELSE invalidPackageTarget
        ELSE IF /\ invalidSegmentRegEx(remainder)
                /\ deprecatedInvalidSegmentRegEx(remainder)
        THEN invalidPackageTarget
        ELSE Warning(targetWarning,
          IF ~StringPrototypeStartsWith(resolvedPath, packagePath)
          THEN invalidPackageTarget
          ELSE IF subpath = "" THEN Returns(env, resolved)
          ELSE IF /\ invalidSegmentRegEx(subpath)
                  /\ deprecatedInvalidSegmentRegEx(subpath)
          THEN Throws(env, "ERR_INVALID_MODULE_SPECIFIER")
          ELSE Warning(subpathWarning,
            IF pattern
            THEN Returns(env, NewURL(ReplaceAllStars(Href(resolved), subpath), NoURL))
            ELSE Returns(env, NewURL(subpath, resolved)))))

\* The arguments resolvePackageTarget hands down unchanged.
TargetContext(packageJSONUrl, subpath, packageSubpath, base, pattern, internal, isPathMap, conditions) ==
  [packageJSONUrl |-> packageJSONUrl, subpath |-> subpath,
   packageSubpath |-> packageSubpath, base |-> base, pattern |-> pattern,
   internal |-> internal, isPathMap |-> isPathMap, conditions |-> conditions]

ResolveIn(env, c, target) ==
  resolvePackageTarget(env, c.packageJSONUrl, target, c.subpath, c.packageSubpath,
                       c.base, c.pattern, c.internal, c.isPathMap, c.conditions)

\* As ResolveTargetArray, but a null element does not replace the error
\* remembered from an earlier element.
RECURSIVE ResolveTargetArrayKeepsException(_, _, _, _, _, _)
ResolveTargetArrayKeepsException(env, c, items, i, lastException, log) ==
  IF i > Len(items)
  THEN After(log,
         IF lastException = "undefined" THEN ReturnsUndefined(env)
         ELSE IF lastException = "null" THEN ReturnsNull(env)
         ELSE Throws(env, lastException))
  ELSE LET resolveResult == ResolveIn(env, c, items[i])
           env2 == EnvAfter(env, resolveResult)
           log2 == After(log, resolveResult)
       IN  IF resolveResult.k = "throw"
           THEN IF resolveResult.code = "ERR_INVALID_PACKAGE_TARGET"
                THEN ResolveTargetArrayKeepsException(env2, c, items, i + 1,
                                                      resolveResult.code, log2)
                ELSE log2
           ELSE IF resolveResult.k = "undefined"
           THEN ResolveTargetArrayKeepsException(env2, c, items, i + 1,
                                                 lastException, log2)
           ELSE IF resolveResult.k = "null"
           THEN ResolveTargetArrayKeepsException(
                  env2, c, items, i + 1,
                  IF lastException = "undefined" THEN "null" ELSE lastException,
                  log2)
           ELSE log2

\* As ResolveTargetArray, but every error is remembered and the loop goes
\* on to the next element.
RECURSIVE ResolveTargetArrayRecoversAll(_, _, _, _, _, _)
ResolveTargetArrayRecoversAll(env, c, items, i, lastException, log) ==
  IF i > Len(items)
  THEN After(log,
         IF lastException = "undefined" THEN ReturnsUndefined(env)
         ELSE IF lastException = "null" THEN ReturnsNull(env)
         ELSE Throws(env, lastException))
  ELSE LET resolveResult == ResolveIn(env, c, items[i])
           env2 == EnvAfter(env, resolveResult)
           log2 == After(log, resolveResult)
       IN  IF resolveResult.k = "throw"
           THEN ResolveTargetArrayRecoversAll(env2, c, items, i + 1,
                                              resolveResult.code, log2)
           ELSE IF resolveResult.k = "undefined"
           THEN ResolveTargetArrayRecoversAll(env2, c, items, i + 1,
                                              lastException, log2)
           ELSE IF resolveResult.k = "null"
           THEN ResolveTargetArrayRecoversAll(env2, c, items, i + 1, "null", log2)
           ELSE log2


\* The loop over the elements of an array target, from element i on.
\* lastException is "undefined", "null" or the code of the error caught
\* last; log holds what the earlier elements logged.
RECURSIVE ResolveTargetArray(_, _, _, _, _, _)
ResolveTargetArray(env, c, items, i, lastException, log) ==
  IF i > Len(items)
  THEN After(log,
         IF lastException = "undefined" THEN ReturnsUndefined(env)
         ELSE IF lastException = "null" THEN ReturnsNull(env)
         ELSE Throws(env, lastException))
  ELSE LET resolveResult == ResolveIn(env, c, items[i])
           env2 == EnvAfter(env, resolveResult)
           log2 == After(log, resolveResult)
       IN  IF resolveResult.k = "throw"
           THEN IF resolveResult.code = "ERR_INVALID_PACKAGE_TARGET"
                THEN ResolveTargetArray(env2, c, items, i + 1, resolveResult.code, log2)
                ELSE log2
           ELSE IF resolveResult.k = "undefined"
           THEN ResolveTargetArray(env2, c, items, i + 1, lastException, log2)
           ELSE IF resolveResult.k = "null"
           THEN ResolveTargetArray(env2, c, items, i + 1, "null", log2)
           ELSE log2

\* As ResolveTargetObject, but the first applicable key decides, also when
\* its value resolves to undefined.
RECURSIVE ResolveTargetObjectFirstApplicable(_, _, _, _, _, _)
ResolveTargetObjectFirstApplicable(env, c, target, keys, i, log) ==
  IF i > Len(keys) THEN After(log, ReturnsUndefined(env))
  ELSE IF keys[i] = "default" \/ keys[i] \in c.conditions
  THEN After(log, ResolveIn(env, c, Get(target, keys[i])))
  ELSE ResolveTargetObjectFirstApplicable(env, c, target, keys, i + 1, log)

\* As ResolveTargetObject, but the key "default" is tried after every other
\* key, whatever its position.
RECURSIVE ResolveTargetObjectDefaultLast(_, _, _, _, _, _)
ResolveTargetObjectDefaultLast(env, c, target, keys, i, log) ==
  IF i > Len(keys)
  THEN IF \E j \in 1..Len(keys) : keys[j] = "default"
       THEN After(log, ResolveIn(env, c, Get(target, "default")))
       ELSE After(log, ReturnsUndefined(env))
  ELSE IF keys[i] # "default" /\ keys[i] \in c.conditions
  THEN LET resolveResult == ResolveIn(env, c, Get(target, keys[i]))
       IN  IF resolveResult.k = "undefined"
           THEN ResolveTargetObjectDefaultLast(EnvAfter(env, resolveResult), c,
                                               target, keys, i + 1,
                                               After(log, resolveResult))
           ELSE After(log, resolveResult)
  ELSE ResolveTargetObjectDefaultLast(env, c, target, keys, i + 1, log)


\* The loop over the keys of an object target, from key i on.
RECURSIVE ResolveTargetObject(_, _, _, _, _, _)
ResolveTargetObject(env, c, target, keys, i, log) ==
  IF i > Len(keys) THEN After(log, ReturnsUndefined(env))
  ELSE IF keys[i] = "default" \/ keys[i] \in c.conditions
  THEN LET resolveResult == ResolveIn(env, c, Get(target, keys[i]))
       IN  IF resolveResult.k = "undefined"
           THEN ResolveTargetObject(EnvAfter(env, resolveResult), c, target, keys,
                                    i + 1, After(log, resolveResult))
           ELSE After(log, resolveResult)
  ELSE ResolveTargetObject(env, c, target, keys, i + 1, log)

resolvePackageTarget(env, packageJSONUrl, target, subpath, packageSubpath, base, pattern, internal, isPathMap, conditions) ==
  LET c == TargetContext(packageJSONUrl, subpath, packageSubpath, base, pattern,
                         internal, isPathMap, conditions)
      keys == ObjectGetOwnPropertyNames(target)
  IN  IF target.t = "string"
      THEN resolvePackageTargetString(env, target.s, subpath, packageSubpath,
                                      packageJSONUrl, base, pattern, internal,
                                      isPathMap, conditions)
      ELSE IF target.t = "array"
      THEN IF Len(target.items) = 0 THEN ReturnsNull(env)
           ELSE ResolveTargetArray(env, c, target.items, 1, "undefined",
                                   ReturnsUndefined(env))
      ELSE IF target.t = "object"
      THEN IF \E i \in 1..Len(keys) : isArrayIndex(keys[i])
           THEN Throws(env, "ERR_INVALID_PACKAGE_CONFIG")
           ELSE ResolveTargetObject(env, c, target, keys, 1, ReturnsUndefined(env))
      ELSE IF target.t = "null" THEN ReturnsNull(env)
      ELSE Throws(env, "ERR_INVALID_PACKAGE_TARGET")

(***************************************************************************)
(* The exports resolver.                                                   *)
(***************************************************************************)
\* As isConditionalExportsMainSugar, but the first key alone decides: the
\* other keys are not compared with it.
isConditionalExportsMainSugarFirstKey(exports) ==
  LET keys == ObjectGetOwnPropertyNames(exports)
  IN  IF exports.t = "string" \/ exports.t = "array" THEN "true"
      ELSE IF exports.t # "object" THEN "false"
      ELSE IF Len(keys) > 0 /\ (keys[1] = "" \/ At(keys[1], 1) # ".") THEN "true"
      ELSE "false"

\* "true", "false", or "throw" for ERR_INVALID_PACKAGE_CONFIG.
isConditionalExportsMainSugar(exports) ==
  LET keys == ObjectGetOwnPropertyNames(exports)
      curIsConditionalSugar(j) == keys[j] = "" \/ At(keys[j], 1) # "."
  IN  IF exports.t = "string" \/ exports.t = "array" THEN "true"
      ELSE IF exports.t # "object" THEN "false"
      ELSE IF \E j \in 2..Len(keys) :
                curIsConditionalSugar(j) # curIsConditionalSugar(1)
      THEN "throw"
      ELSE IF Len(keys) > 0 /\ curIsConditionalSugar(1) THEN "true"
      ELSE "false"

\* As patternKeyCompare, but between keys of equal prefix the shorter wins.
patternKeyCompareShorterWins(a, b) ==
  LET aPatternIndex == StringPrototypeIndexOf(a, "*")
      bPatternIndex == StringPrototypeIndexOf(b, "*")
      baseLenA == IF aPatternIndex = -1 THEN Len(a) ELSE aPatternIndex + 1
      baseLenB == IF bPatternIndex = -1 THEN Len(b) ELSE bPatternIndex + 1
  IN  IF baseLenA > baseLenB THEN -1
      ELSE IF baseLenB > baseLenA THEN 1
      ELSE IF aPatternIndex = -1 THEN 1
      ELSE IF bPatternIndex = -1 THEN -1
      ELSE IF Len(a) > Len(b) THEN 1
      ELSE IF Len(b) > Len(a) THEN -1
      ELSE 0


patternKeyCompare(a, b) ==
  LET aPatternIndex == StringPrototypeIndexOf(a, "*")
      bPatternIndex == StringPrototypeIndexOf(b, "*")
      baseLenA == IF aPatternIndex = -1 THEN Len(a) ELSE aPatternIndex + 1
      baseLenB == IF bPatternIndex = -1 THEN Len(b) ELSE bPatternIndex + 1
  IN  IF baseLenA > baseLenB THEN -1
      ELSE IF baseLenB > baseLenA THEN 1
      ELSE IF aPatternIndex = -1 THEN 1
      ELSE IF bPatternIndex = -1 THEN -1
      ELSE IF Len(a) > Len(b) THEN -1
      ELSE IF Len(b) > Len(a) THEN 1
      ELSE 0

\* emitTrailingSlashPatternDeprecation: the key it records.
TrailingSlashKey(match, pjsonUrl) == fileURLToPath(pjsonUrl) \o "|" \o match

\* The state of a pattern scan: the best key so far, its capture, the
\* deprecation keys emitted and the warnings of this scan.
ScanState(bestMatch, bestMatchSubpath, emitted, warns) ==
  [bestMatch |-> bestMatch, bestMatchSubpath |-> bestMatchSubpath,
   emitted |-> emitted, warns |-> warns]

\* As PatternKeyMatches, but a name as long as the key without its '*' is
\* accepted.
PatternKeyMatchesEmptyCapture(name, key, bestMatch) ==
  LET patternIndex == StringPrototypeIndexOf(key, "*")
      patternTrailer == SliceFrom(key, patternIndex + 1)
  IN  /\ Len(name) >= Len(key) - 1
      /\ StringPrototypeEndsWith(name, patternTrailer)
      /\ patternKeyCompare(bestMatch, key) = 1
      /\ StringPrototypeLastIndexOf(key, "*") = patternIndex


\* The condition under which the scan takes key as its new best match.
PatternKeyMatches(name, key, bestMatch) ==
  LET patternIndex == StringPrototypeIndexOf(key, "*")
      patternTrailer == SliceFrom(key, patternIndex + 1)
  IN  /\ Len(name) >= Len(key)
      /\ StringPrototypeEndsWith(name, patternTrailer)
      /\ patternKeyCompare(bestMatch, key) = 1
      /\ StringPrototypeLastIndexOf(key, "*") = patternIndex

PatternCapture(name, key) ==
  LET patternIndex == StringPrototypeIndexOf(key, "*")
      patternTrailer == SliceFrom(key, patternIndex + 1)
  IN  StringPrototypeSlice(name, patternIndex, Len(name) - Len(patternTrailer))

\* As ExportsScan, but the deprecation is emitted without looking at the
\* keys emitted before.
RECURSIVE ExportsScanAlwaysEmits(_, _, _, _, _)
ExportsScanAlwaysEmits(packageSubpath, packageJSONUrl, keys, i, st) ==
  IF i > Len(keys) THEN st
  ELSE LET key == keys[i]
           patternIndex == StringPrototypeIndexOf(key, "*")
           dep == TrailingSlashKey(packageSubpath, packageJSONUrl)
           st1 == IF StringPrototypeEndsWith(packageSubpath, "/")
                  THEN [st EXCEPT !.emitted = @ \cup {dep},
                                  !.warns = Append(@, "DEP0155|" \o dep)]
                  ELSE st
       IN  IF /\ patternIndex # -1
              /\ StringPrototypeStartsWith(
                   packageSubpath, StringPrototypeSlice(key, 0, patternIndex))
           THEN ExportsScanAlwaysEmits(packageSubpath, packageJSONUrl, keys, i + 1,
                  IF PatternKeyMatches(packageSubpath, key, st.bestMatch)
                  THEN [st1 EXCEPT !.bestMatch = key,
                                   !.bestMatchSubpath = PatternCapture(packageSubpath, key)]
                  ELSE st1)
           ELSE ExportsScanAlwaysEmits(packageSubpath, packageJSONUrl, keys, i + 1, st)


\* The pattern loop of packageExportsResolve over keys[i..].
RECURSIVE ExportsScan(_, _, _, _, _)
ExportsScan(packageSubpath, packageJSONUrl, keys, i, st) ==
  IF i > Len(keys) THEN st
  ELSE LET key == keys[i]
           patternIndex == StringPrototypeIndexOf(key, "*")
           dep == TrailingSlashKey(packageSubpath, packageJSONUrl)
           emits == StringPrototypeEndsWith(packageSubpath, "/") /\ dep \notin st.emitted
           st1 == IF emits
                  THEN [st EXCEPT !.emitted = @ \cup {dep},
                                  !.warns = Append(@, "DEP0155|" \o dep)]
                  ELSE st
       IN  IF /\ patternIndex # -1
              /\ StringPrototypeStartsWith(
                   packageSubpath, StringPrototypeSlice(key, 0, patternIndex))
           THEN ExportsScan(packageSubpath, packageJSONUrl, keys, i + 1,
                  IF PatternKeyMatches(packageSubpath, key, st.bestMatch)
                  THEN [st1 EXCEPT !.bestMatch = key,
                                   !.bestMatchSubpath = PatternCapture(packageSubpath, key)]
                  ELSE st1)
           ELSE ExportsScan(packageSubpath, packageJSONUrl, keys, i + 1, st)

\* A null or undefined result of the target becomes exportsNotFound.
ExportsResult(resolveResult) ==
  IF resolveResult.k \in {"null", "undefined"}
  THEN Rethrown(resolveResult, "ERR_PACKAGE_PATH_NOT_EXPORTED")
  ELSE resolveResult

\* As packageExportsResolve, but the literal key is looked up only when no
\* pattern key matches.
packageExportsResolveScanFirst(env, packageJSONUrl, packageSubpath, packageConfig, base, conditions) ==
  LET sugar == isConditionalExportsMainSugar(packageConfig.exports)
      exports == IF sugar = "true" THEN Obj(<< <<".", packageConfig.exports>> >>)
                 ELSE packageConfig.exports
      scan == ExportsScan(packageSubpath, packageJSONUrl,
                          ObjectGetOwnPropertyNames(exports), 1,
                          ScanState("", "", env.emitted, <<>>))
      env2 == [env EXCEPT !.emitted = scan.emitted]
  IN  IF sugar = "throw" THEN Throws(env, "ERR_INVALID_PACKAGE_CONFIG")
      ELSE IF scan.bestMatch # ""
      THEN Warning(scan.warns,
             ExportsResult(
               resolvePackageTarget(env2, packageJSONUrl, Get(exports, scan.bestMatch),
                                    scan.bestMatchSubpath, scan.bestMatch, base,
                                    TRUE, FALSE,
                                    StringPrototypeEndsWith(packageSubpath, "/"),
                                    conditions)))
      ELSE IF HasOwnProperty(exports, packageSubpath)
      THEN ExportsResult(
             resolvePackageTarget(env, packageJSONUrl, Get(exports, packageSubpath),
                                  "", packageSubpath, base, FALSE, FALSE, FALSE,
                                  conditions))
      ELSE Throws(env2, "ERR_PACKAGE_PATH_NOT_EXPORTED")


packageExportsResolve(env, packageJSONUrl, packageSubpath, packageConfig, base, conditions) ==
  LET sugar == isConditionalExportsMainSugar(packageConfig.exports)
      exports == IF sugar = "true" THEN Obj(<< <<".", packageConfig.exports>> >>)
                 ELSE packageConfig.exports
      scan == ExportsScan(packageSubpath, packageJSONUrl,
                          ObjectGetOwnPropertyNames(exports), 1,
                          ScanState("", "", env.emitted, <<>>))
      env2 == [env EXCEPT !.emitted = scan.emitted]
  IN  IF sugar = "throw" THEN Throws(env, "ERR_INVALID_PACKAGE_CONFIG")
      ELSE IF /\ HasOwnProperty(exports, packageSubpath)
              /\ ~StringPrototypeIncludes(packageSubpath, "*")
              /\ ~StringPrototypeEndsWith(packageSubpath, "/")
      THEN ExportsResult(
             resolvePackageTarget(env, packageJSONUrl, Get(exports, packageSubpath),
                                  "", packageSubpath, base, FALSE, FALSE, FALSE,
                                  conditions))
      ELSE Warning(scan.warns,
             IF scan.bestMatch # ""
             THEN ExportsResult(
                    resolvePackageTarget(env2, packageJSONUrl,
                                         Get(exports, scan.bestMatch),
                                         scan.bestMatchSubpath, scan.bestMatch, base,
                                         TRUE, FALSE,
                                         StringPrototypeEndsWith(packageSubpath, "/"),
                                         conditions))
             ELSE Throws(env2, "ERR_PACKAGE_PATH_NOT_EXPORTED"))

(***************************************************************************)
(* Bare specifiers.                                                        *)
(***************************************************************************)
\* s.indexOf('/', from)
IndexOfSlashFrom(s, from) ==
  LET i == StringPrototypeIndexOf(SliceFrom(s, from), "/")
  IN  IF i = -1 THEN -1 ELSE i + from

parsePackageName(specifier) ==
  LET firstSeparator == StringPrototypeIndexOf(specifier, "/")
      isScoped == specifier # "" /\ At(specifier, 1) = "@"
      separatorIndex ==
        IF isScoped /\ firstSeparator # -1
        THEN IndexOfSlashFrom(specifier, firstSeparator + 1)
        ELSE firstSeparator
      packageName ==
        IF separatorIndex = -1 THEN specifier
        ELSE StringPrototypeSlice(specifier, 0, separatorIndex)
      validPackageName ==
        /\ ~(isScoped /\ (firstSeparator = -1 \/ specifier = ""))
        /\ ~invalidPackageNameRegEx(packageName)
  IN  [valid |-> validPackageName,
       packageName |-> packageName,
       packageSubpath |-> "." \o (IF separatorIndex = -1 THEN ""
                                  ELSE SliceFrom(specifier, separatorIndex)),
       isScoped |-> isScoped]

legacyMainResolveExtensions ==
  <<"", ".js", ".json", ".node", "/index.js", "/index.json", "/index.node",
    "./index.js", "./index.json", "./index.node">>

kResolvedByMainIndexNode == 6

\* The candidate the binding tries at position i (0-based).
LegacyCandidate(packageJSONUrl, main, i) ==
  NewURL((IF i <= kResolvedByMainIndexNode THEN "./" \o main ELSE "")
           \o legacyMainResolveExtensions[i + 1],
         packageJSONUrl)

legacyMainResolve(env, packageJSONUrl, packageConfig, base) ==
  LET tried == {i \in 0..9 :
                  /\ (i <= kResolvedByMainIndexNode => packageConfig.main # "")
                  /\ fileURLToPath(LegacyCandidate(packageJSONUrl, packageConfig.main, i))
                       \in env.files}
      resolvedOption == CHOOSE i \in tried : \A j \in tried : i <= j
  IN  IF tried = {} THEN Throws(env, "ERR_MODULE_NOT_FOUND")
      ELSE Returns(env, LegacyCandidate(packageJSONUrl, packageConfig.main, resolvedOption))

\* The text "/package.json" that packageResolve cuts off packageJSONPath.
PackageJsonSuffixLength == 13

\* The do-while loop of packageResolve, entered with packageJSONUrl.
RECURSIVE PackageWalk(_, _, _, _, _, _)
PackageWalk(env, packageJSONUrl, parsed, specifier, base, conditions) ==
  LET packageJSONPath == fileURLToPath(packageJSONUrl)
      probed == StringPrototypeSlice(packageJSONPath, 0,
                                     Len(packageJSONPath) - PackageJsonSuffixLength)
      stat == internalModuleStat(env, probed)
      nextUrl == NewURL((IF parsed.isScoped THEN "../../../../node_modules/"
                         ELSE "../../../node_modules/")
                          \o parsed.packageName \o "/package.json",
                        packageJSONUrl)
      packageConfig == packageJsonReaderRead(env, packageJSONPath)
  IN  Probing(probed,
        IF stat # 1
        THEN IF Len(fileURLToPath(nextUrl)) # Len(packageJSONPath)
             THEN PackageWalk(env, nextUrl, parsed, specifier, base, conditions)
             ELSE Throws(env, "ERR_MODULE_NOT_FOUND")
        ELSE IF packageConfig.exports.t \notin {"null", "undefined"}
        THEN packageExportsResolve(env, packageJSONUrl, parsed.packageSubpath,
                                   packageConfig, base, conditions)
        ELSE IF parsed.packageSubpath = "."
        THEN legacyMainResolve(env, packageJSONUrl, packageConfig, base)
        ELSE Returns(env, NewURL(parsed.packageSubpath, packageJSONUrl)))

\* As packageResolve, but the walk comes first and ResolveSelf is tried only
\* when the walk finds nothing.
packageResolveWalkFirst(env, specifier, base, conditions) ==
  LET parsed == parsePackageName(specifier)
      packageConfig == getPackageScopeConfig(env, base)
      walked == PackageWalk(env,
                            NewURL("./node_modules/" \o parsed.packageName
                                     \o "/package.json", base),
                            parsed, specifier, base, conditions)
  IN  IF canBeRequiredWithoutScheme(specifier)
      THEN Returns(env, URLOf("node:", specifier, ""))
      ELSE IF ~parsed.valid THEN Throws(env, "ERR_INVALID_MODULE_SPECIFIER")
      ELSE IF /\ walked.k = "throw"
              /\ walked.code = "ERR_MODULE_NOT_FOUND"
              /\ packageConfig.exists
              /\ packageConfig.exports.t \notin {"null", "undefined"}
              /\ packageConfig.name = parsed.packageName
      THEN packageExportsResolve(env, pathToFileURL(packageConfig.pjsonPath),
                                 parsed.packageSubpath, packageConfig, base,
                                 conditions)
      ELSE walked


packageResolve(env, specifier, base, conditions) ==
  LET parsed == parsePackageName(specifier)
      packageConfig == getPackageScopeConfig(env, base)
  IN  IF canBeRequiredWithoutScheme(specifier)
      THEN Returns(env, URLOf("node:", specifier, ""))
      ELSE IF ~parsed.valid THEN Throws(env, "ERR_INVALID_MODULE_SPECIFIER")
      ELSE IF /\ packageConfig.exists
              /\ packageConfig.exports.t \notin {"null", "undefined"}
              /\ packageConfig.name = parsed.packageName
      THEN packageExportsResolve(env, pathToFileURL(packageConfig.pjsonPath),
                                 parsed.packageSubpath, packageConfig, base,
                                 conditions)
      ELSE PackageWalk(env,
                       NewURL("./node_modules/" \o parsed.packageName
                                \o "/package.json", base),
                       parsed, specifier, base, conditions)

(***************************************************************************)
(* The imports resolver.                                                   *)
(***************************************************************************)
\* The pattern loop of packageImportsResolve over keys[i..].
RECURSIVE ImportsScan(_, _, _, _)
ImportsScan(name, keys, i, st) ==
  IF i > Len(keys) THEN st
  ELSE LET key == keys[i]
           patternIndex == StringPrototypeIndexOf(key, "*")
       IN  IF /\ patternIndex # -1
              /\ StringPrototypeStartsWith(
                   name, StringPrototypeSlice(key, 0, patternIndex))
              /\ PatternKeyMatches(name, key, st.bestMatch)
           THEN ImportsScan(name, keys, i + 1,
                  [st EXCEPT !.bestMatch = key,
                             !.bestMatchSubpath = PatternCapture(name, key)])
           ELSE ImportsScan(name, keys, i + 1, st)

\* A null or undefined result of the target becomes importNotDefined.
ImportsResult(resolveResult) ==
  IF resolveResult.k \in {"null", "undefined"}
  THEN Rethrown(resolveResult, "ERR_PACKAGE_IMPORT_NOT_DEFINED")
  ELSE resolveResult

packageImportsResolve(env, name, base, conditions) ==
  LET packageConfig == getPackageScopeConfig(env, base)
      packageJSONUrl == pathToFileURL(packageConfig.pjsonPath)
      imports == packageConfig.imports
      scan == ImportsScan(name, ObjectGetOwnPropertyNames(imports), 1,
                          ScanState("", "", env.emitted, <<>>))
  IN  IF \/ name = "#"
         \/ StringPrototypeStartsWith(name, "#/")
         \/ StringPrototypeEndsWith(name, "/")
      THEN Throws(env, "ERR_INVALID_MODULE_SPECIFIER")
      ELSE IF ~packageConfig.exists \/ imports.t \in {"null", "undefined"}
      THEN Throws(env, "ERR_PACKAGE_IMPORT_NOT_DEFINED")
      ELSE IF HasOwnProperty(imports, name) /\ ~StringPrototypeIncludes(name, "*")
      THEN ImportsResult(
             resolvePackageTarget(env, packageJSONUrl, Get(imports, name), "", name,
                                  base, FALSE, TRUE, FALSE, conditions))
      ELSE IF scan.bestMatch # ""
      THEN ImportsResult(
             resolvePackageTarget(env, packageJSONUrl, Get(imports, scan.bestMatch),
                                  scan.bestMatchSubpath, scan.bestMatch, base, TRUE,
                                  TRUE, FALSE, conditions))
      ELSE Throws(env, "ERR_PACKAGE_IMPORT_NOT_DEFINED")

(***************************************************************************)
(* Finalization.                                                           *)
(***************************************************************************)
\* StringPrototypeSlice(path, -1) is the last character of path: for a path
\* that ends with "/" the path probed is "/".
finalizeResolution(env, resolved, base, preserveSymlinks) ==
  LET path == fileURLToPath(resolved)
      probed == IF StringPrototypeEndsWith(path, "/")
                THEN SliceFrom(path, Len(path) - 1) ELSE path
      stats == internalModuleStat(env, probed)
      real == realpathSync(env, path)
      canonical == pathToFileURL(
                     real \o (IF StringPrototypeEndsWith(path, "/") THEN "/" ELSE ""))
  IN  IF encodedSepRegEx(resolved.pathname)
      THEN Throws(env, "ERR_INVALID_MODULE_SPECIFIER")
      ELSE Probing(probed,
             IF stats = 1 THEN Throws(env, "ERR_UNSUPPORTED_DIR_IMPORT")
             ELSE IF stats # 0 THEN Throws(env, "ERR_MODULE_NOT_FOUND")
             ELSE IF ~preserveSymlinks
             THEN Returns(env, [canonical EXCEPT !.rest = resolved.rest])
             ELSE Returns(env, resolved))

(***************************************************************************)
(* The entry points: moduleResolve and defaultResolve.                     *)
(***************************************************************************)
\* A URL with a host: http: and https: URLs.
HostURL(protocol, host, pathname, rest) ==
  [protocol |-> protocol, host |-> host, pathname |-> pathname, rest |-> rest]

\* new URL(input) for an input with a scheme.  NoURL stands for the
\* TypeError the constructor throws.
AbsoluteURL(input) ==
  LET colon == StringPrototypeIndexOf(input, ":")
      scheme == LowerCase(StringPrototypeSlice(input, 0, colon))
      after == SliceFrom(input, colon + 1)
      cut == PathEnd(after)
      ptext == SubSeq(after, 1, cut - 1)
      rest == SubSeq(after, cut, Len(after))
      raw == Segments(ptext)
      \* "//host/path": raw is <<"", "", host, segments...>>
      host == IF Len(raw) >= 3 THEN raw[3] ELSE ""
      segs == PathState(<<>>, SubSeq(raw, 4, Len(raw)), 1)
  IN  IF scheme = "file" THEN NewURL("file://" \o SliceFrom(after, 2), NoURL)
      ELSE IF scheme \in {"http", "https"}
      THEN IF host = "" \/ StringPrototypeIncludes(host, "[") THEN NoURL
           ELSE HostURL(scheme \o ":", LowerCase(host),
                        IF segs = <<>> THEN "/" ELSE JoinPath(segs), rest)
      ELSE URLOf(scheme \o ":", ptext, rest)

\* new URL(input, base), base being a URL or NoURL for undefined.
ParseURL(input, base) ==
  LET cut == PathEnd(input)
      ptext == SubSeq(input, 1, cut - 1)
      rest == SubSeq(input, cut, Len(input))
      raw == Segments(ptext)
      root == ptext # "" /\ IsDelim(At(ptext, 1))
      start == IF root THEN <<>> ELSE Pop(PathSegs(base.pathname))
      segs == IF root THEN PathState(start, Tail(raw), 1)
              ELSE PathState(start, raw, 1)
  IN  IF URLCanParse(input) THEN AbsoluteURL(input)
      ELSE IF StringPrototypeIndexOf(input, ":") >= 1
              /\ LowerCase(StringPrototypeSlice(input, 0, StringPrototypeIndexOf(input, ":")))
                   \in {"http", "https"}
      THEN NoURL
      ELSE IF base = NoURL THEN NoURL
      ELSE IF base.protocol = "file:"
      THEN IF /\ Len(raw) >= 3
              /\ raw[1] = ""
              /\ raw[2] = ""
              /\ StringPrototypeIncludes(raw[3], "[")
           THEN NoURL
           ELSE NewURL(input, base)
      ELSE IF "host" \notin DOMAIN base THEN NoURL
      ELSE IF Len(ptext) >= 2 /\ IsDelim(At(ptext, 1)) /\ IsDelim(At(ptext, 2))
      THEN AbsoluteURL(base.protocol \o input)
      ELSE IF input = "" THEN base
      ELSE HostURL(base.protocol, base.host,
                   IF segs = <<>> THEN "/" ELSE JoinPath(segs), rest)

isRelativeSpecifier(specifier) ==
  /\ Len(specifier) >= 1
  /\ At(specifier, 1) = "."
  /\ \/ Len(specifier) = 1
     \/ At(specifier, 2) = "/"
     \/ /\ At(specifier, 2) = "."
        /\ (Len(specifier) = 2 \/ At(specifier, 3) = "/")

shouldBeTreatedAsRelativeOrAbsolutePath(specifier) ==
  IF specifier = "" THEN FALSE
  ELSE IF At(specifier, 1) = "/" THEN TRUE
  ELSE isRelativeSpecifier(specifier)

\* The outcome of an entry point: the outcome of the resolvers it ran, the
\* string it returned and the functions it entered.
EntryOutcome(o, href, calls) == o @@ [href |-> href, calls |-> calls]

\* moduleResolve: resolved stays undefined when the base is remote and the
\* specifier is no URL, and reading its protocol then throws a TypeError.
\* The one-element sets bind resolved (and, in defaultResolve, each local
\* variable) to its value, so that it is computed once.
moduleResolve(env, specifier, base, conditions, preserveSymlinks) ==
  LET isRemote == base.protocol \in {"http:", "https:"}
  IN  CHOOSE result \in
        { IF resolved.k # "url" \/ resolved.url.protocol # "file:" THEN resolved
          ELSE After(resolved,
                     finalizeResolution(EnvAfter(env, resolved), resolved.url, base,
                                        preserveSymlinks)) :
          resolved \in
            { IF shouldBeTreatedAsRelativeOrAbsolutePath(specifier)
              THEN IF ParseURL(specifier, base) = NoURL
                   THEN Throws(env, "ERR_INVALID_URL")
                   ELSE Returns(env, ParseURL(specifier, base))
              ELSE IF ~isRemote /\ specifier # "" /\ At(specifier, 1) = "#"
              THEN packageImportsResolve(env, specifier, base, conditions)
              ELSE IF ParseURL(specifier, NoURL) # NoURL
              THEN Returns(env, ParseURL(specifier, NoURL))
              ELSE IF ~isRemote THEN packageResolve(env, specifier, base, conditions)
              ELSE Throws(env, "TypeError") } } : TRUE

\* checkIfDisallowedImport letting a node: URL through.
checkIfDisallowedImportAllowsNode(env, specifier, parsed, parsedParentURL) ==
  IF parsedParentURL # NoURL /\ parsedParentURL.protocol \in {"http:", "https:"}
  THEN IF parsed # NoURL /\ parsed.protocol = "node:"
       THEN Outcome(env, "pass", NoURL, "")
       ELSE IF shouldBeTreatedAsRelativeOrAbsolutePath(specifier)
       THEN IF parsed # NoURL /\ parsed.protocol \notin {"https:", "http:"}
            THEN Throws(env, "ERR_NETWORK_IMPORT_DISALLOWED")
            ELSE IF parsed = NoURL THEN Throws(env, "TypeError")
            ELSE Returns(env, parsed)
       ELSE Throws(env, "ERR_NETWORK_IMPORT_DISALLOWED")
  ELSE Outcome(env, "pass", NoURL, "")

\* checkIfDisallowedImport rejecting built-in names only.
checkIfDisallowedImportBuiltinsOnly(env, specifier, parsed, parsedParentURL) ==
  IF parsedParentURL # NoURL /\ parsedParentURL.protocol \in {"http:", "https:"}
  THEN IF shouldBeTreatedAsRelativeOrAbsolutePath(specifier)
       THEN IF parsed # NoURL /\ parsed.protocol \notin {"https:", "http:"}
            THEN Throws(env, "ERR_NETWORK_IMPORT_DISALLOWED")
            ELSE IF parsed = NoURL THEN Throws(env, "TypeError")
            ELSE Returns(env, parsed)
       ELSE IF canBeRequiredWithoutScheme(specifier)
       THEN Throws(env, "ERR_NETWORK_IMPORT_DISALLOWED")
       ELSE Outcome(env, "pass", NoURL, "")
  ELSE Outcome(env, "pass", NoURL, "")


\* checkIfDisallowedImport: "pass" stands for returning undefined.  With a
\* remote parent and a relative specifier that did not parse, parsed.href
\* throws a TypeError.
checkIfDisallowedImport(env, specifier, parsed, parsedParentURL) ==
  IF parsedParentURL # NoURL /\ parsedParentURL.protocol \in {"http:", "https:"}
  THEN IF shouldBeTreatedAsRelativeOrAbsolutePath(specifier)
       THEN IF parsed # NoURL /\ parsed.protocol \notin {"https:", "http:"}
            THEN Throws(env, "ERR_NETWORK_IMPORT_DISALLOWED")
            ELSE IF parsed = NoURL THEN Throws(env, "TypeError")
            ELSE Returns(env, parsed)
       ELSE IF canBeRequiredWithoutScheme(specifier)
       THEN Throws(env, "ERR_NETWORK_IMPORT_DISALLOWED")
       ELSE Throws(env, "ERR_NETWORK_IMPORT_DISALLOWED")
  ELSE Outcome(env, "pass", NoURL, "")

\* The options the process was started with.
Options(experimentalNetworkImports, typeFlag, preserveSymlinks, preserveSymlinksMain) ==
  [experimentalNetworkImports |-> experimentalNetworkImports,
   typeFlag |-> typeFlag, preserveSymlinks |-> preserveSymlinks,
   preserveSymlinksMain |-> preserveSymlinksMain]

\* process.cwd()
Cwd == "/app"

\* defaultResolve without a policy manifest; parentURL is Str(href) or
\* Undefined.  The hint resolveAsCommonJS adds to an error changes its
\* message only.  moduleResolve is handed parentURL as a string, which for
\* the parents that reach it (the main entry and file: URLs) names the same
\* base as the parsed URL.
defaultResolve(env, options, specifier, parentURL, conditions) ==
  LET isMain == parentURL.t = "undefined"
      Resolution(parsedParentURL, parsed, maybeReturn) ==
        IF /\ parsed # NoURL
           /\ \/ parsed.protocol = "data:"
              \/ /\ options.experimentalNetworkImports
                 /\ parsed.protocol \in {"https:", "http:"}
        THEN EntryOutcome(Returns(env, parsed), Href(parsed), <<>>)
        ELSE IF maybeReturn.k = "url"
        THEN EntryOutcome(maybeReturn, Href(maybeReturn.url), <<>>)
        ELSE IF maybeReturn.k = "throw" THEN EntryOutcome(maybeReturn, "", <<>>)
        ELSE IF parsed # NoURL /\ parsed.protocol = "node:"
        THEN EntryOutcome(Returns(env, parsed), specifier, <<>>)
        ELSE IF isMain /\ options.typeFlag
        THEN EntryOutcome(Throws(env, "ERR_INPUT_TYPE_NOT_ALLOWED"), "", <<>>)
        ELSE CHOOSE result \in
               { EntryOutcome(resolved,
                              IF resolved.k = "url" THEN Href(resolved.url) ELSE "",
                              <<"moduleResolve">>) :
                 resolved \in
                   UNION
                     { { moduleResolve(env, specifier, base, conditions,
                                       IF isMain THEN options.preserveSymlinksMain
                                       ELSE options.preserveSymlinks) } :
                       base \in { IF isMain THEN pathToFileURL(Cwd \o "/")
                                  ELSE parsedParentURL } } } : TRUE
  IN  CHOOSE result \in
        UNION
          { UNION
              { { Resolution(parsedParentURL, parsed, maybeReturn) :
                  maybeReturn \in
                    {checkIfDisallowedImport(env, specifier, parsed, parsedParentURL)} } :
                parsed \in
                  { IF shouldBeTreatedAsRelativeOrAbsolutePath(specifier)
                    THEN ParseURL(specifier, parsedParentURL)
                    ELSE ParseURL(specifier, NoURL) } } :
            parsedParentURL \in
              { IF parentURL.t = "string" THEN ParseURL(parentURL.s, NoURL)
                ELSE NoURL } } : TRUE


(***************************************************************************)
(* The resolver as a state machine: one action per exported operation,     *)
(* called with inputs drawn from the sets below, and Return, which hands   *)
(* control back.  emittedPackageWarnings lives as long as the process.     *)
(***************************************************************************)
PkgJsonPath == "/app/node_modules/pkg/package.json"

PkgJsonUrl == pathToFileURL(PkgJsonPath)

PkgDir == NewURL(".", PkgJsonUrl).pathname

BaseUrl == pathToFileURL("/app/index.js")

EmptyMap == [x \in {} |-> x]

NoArgs == [none |-> TRUE]

NoOutcome ==
  [k |-> "", url |-> NoURL, code |-> "", visited |-> <<>>, probes |-> <<>>,
   warns |-> <<>>, emitted |-> {}]

\* The entries an exports map of the model is made of.
ExportEntries ==
  { <<".", Str("./main.js")>>,
    <<"./a", Str("./a.js")>>,
    <<"./a", Null>>,
    <<"./a", Str("./node_modules/x.js")>>,
    <<"./*", Str("./lib/*.js")>>,
    <<"./*", Str("./node_*/x.js")>>,
    <<"./*", Str("./.%2*/x.js")>>,
    <<"./a*", Str("./x/*")>>,
    <<"./a/*", Str("./y/*")>>,
    <<"./*.js", Str("./z/*")>>,
    <<"./a*.js", Str("./w/*")>>,
    <<"./a**", Str("./v/*")>>,
    <<"import", Str("./i.js")>>,
    <<"default", Str("../d.js")>> }

\* The sequences of at most n elements of S whose first components differ.
EntrySeqs(S, n) ==
  {s \in UNION {[1..m -> S] : m \in 0..n} :
     \A i, j \in 1..Len(s) : i # j => s[i][1] # s[j][1]}

ExportsValues ==
  {Obj(es) : es \in EntrySeqs(ExportEntries, MaxKeys)}
    \cup {Str("./main.js"), Arr(<<Str("main.js"), Str("./main.js")>>), Num}

Subpaths ==
  {".", "./a", "./a.js", "./ab.js", "./a/b", "./modules", "./e", "./../x",
   "./a/", "./a*"}

ConditionSets == {{"import"}, {"require"}}

ExportsConfig(exports) ==
  PackageConfig(TRUE, PkgJsonPath, "pkg", "", exports, Undefined)

ProcessEnv == Env({}, {}, EmptyMap, EmptyMap, EmptyMap, emittedPackageWarnings)

Init ==
  /\ pc = "idle"
  /\ op = ""
  /\ args = NoArgs
  /\ ret = NoOutcome
  /\ emittedPackageWarnings = {}

Done(name, input, outcome) ==
  /\ pc' = "done"
  /\ op' = name
  /\ args' = input
  /\ ret' = outcome
  /\ emittedPackageWarnings' = outcome.emitted

CallPackageExportsResolve ==
  /\ pc = "idle"
  /\ \E exports \in ExportsValues, subpath \in Subpaths, conditions \in ConditionSets :
       Done("packageExportsResolve",
            [map |-> exports, name |-> subpath, conditions |-> conditions],
            packageExportsResolve(ProcessEnv, PkgJsonUrl, subpath,
                                  ExportsConfig(exports), BaseUrl, conditions))

\* The package that encloses BaseUrl, and the package "dep" installed in it.
AppJsonPath == "/app/package.json"

AppJsonUrl == pathToFileURL(AppJsonPath)

DepJsonPath == "/app/node_modules/dep/package.json"

DepConfig ==
  PackageConfig(TRUE, DepJsonPath, "dep", "",
                Obj(<< <<".", Str("./index.js")>>, <<"./*", Str("./src/*.js")>> >>),
                Undefined)

\* The entries an imports map of the model is made of.
ImportEntries ==
  { <<"#a", Str("./a.js")>>,
    <<"#a", Null>>,
    <<"#*", Str("./lib/*.js")>>,
    <<"#*", Str("./node_*/x.js")>>,
    <<"#a*", Str("./x/*")>>,
    <<"#a/*", Str("./y/*")>>,
    <<"#*.js", Str("./z/*")>>,
    <<"#a*.js", Str("./w/*")>>,
    <<"#a**", Str("./v/*")>>,
    <<"#dep", Str("dep")>>,
    <<"#d/*", Str("dep/*")>> }

ImportsValues ==
  {Obj(es) : es \in EntrySeqs(ImportEntries, MaxKeys)} \cup {Undefined}

ImportNames ==
  {"#a", "#a.js", "#ab.js", "#a/b", "#modules", "#dep", "#d/x", "#", "#/a",
   "#a/", "#a*"}

AppConfig(imports) == PackageConfig(TRUE, AppJsonPath, "app", "", Undefined, imports)

ImportsEnv(imports) ==
  Env({"/app/node_modules/dep"}, {},
      [p \in {DepJsonPath} |-> DepConfig],
      [p \in {BaseUrl.pathname, AppJsonUrl.pathname} |-> AppConfig(imports)],
      EmptyMap, emittedPackageWarnings)

CallPackageImportsResolve ==
  /\ pc = "idle"
  /\ \E imports \in ImportsValues, name \in ImportNames, conditions \in ConditionSets :
       Done("packageImportsResolve",
            [map |-> imports, name |-> name, conditions |-> conditions],
            packageImportsResolve(ImportsEnv(imports), name, BaseUrl, conditions))

\* The targets resolvePackageTarget is called with: strings (two that
\* resolve, one that does not start with "./"), null, the empty map, a
\* number, and the maps and lists made of these and of three nested
\* targets.
TargetAtoms == {Str("./x.js"), Str("./y.js"), Str("x.js"), Null, Obj(<<>>), Num}

NestedTargets ==
  { Obj(<< <<"node", Str("./n.js")>> >>),
    Arr(<<Str("x.js"), Str("./l.js")>>),
    Obj(<< <<"0", Str("./z.js")>> >>) }

TargetKeys == {"import", "require", "node", "default", "0"}

\* The values of the keys of a map target.
TargetKeyValues ==
  { Str("./x.js"), Str("./y.js"), Str("x.js"), Null,
    Obj(<< <<"node", Str("./n.js")>> >>),
    Arr(<<Str("x.js"), Str("./l.js")>>) }

TargetEntries == {<<k, v>> : k \in TargetKeys, v \in TargetKeyValues}

TargetLists ==
  UNION {[1..m -> TargetAtoms \cup NestedTargets] : m \in 0..MaxListLen}

TargetValues ==
  TargetAtoms \cup {Obj(es) : es \in EntrySeqs(TargetEntries, MaxMapLen)}
              \cup {Arr(items) : items \in TargetLists}

TargetConditionSets == {{"import"}, {"node", "require"}}

\* A literal key, and a pattern key with the capture "node_modules".
TargetCalls ==
  { [subpath |-> "", packageSubpath |-> ".", pattern |-> FALSE],
    [subpath |-> "node_modules", packageSubpath |-> "./node_modules", pattern |-> TRUE] }

CallResolvePackageTarget ==
  /\ pc = "idle"
  /\ \E target \in TargetValues, call \in TargetCalls, conditions \in TargetConditionSets :
       Done("resolvePackageTarget",
            [target |-> target, call |-> call, conditions |-> conditions],
            resolvePackageTarget(ProcessEnv, PkgJsonUrl, target, call.subpath,
                                 call.packageSubpath, BaseUrl, call.pattern,
                                 FALSE, FALSE, conditions))


\* The targets of the application's own package.json that
\* resolvePackageTarget is called with: strings that start with "./", name
\* a package, leave the package, are URLs or are no package name, null, a
\* map with a numeric key, and the lists made of these.
AppTargetAtoms ==
  { Str("./x.js"), Str("dep"), Str("dep/*/*"), Str("x.js"), Str("../x.js"),
    Str("/x.js"), Str("https://h/x.js"), Str("@/x"), Str("fs"), Null,
    Obj(<< <<"0", Str("./z.js")>> >>) }

AppTargetLists == UNION {[1..m -> AppTargetAtoms] : m \in 0..MaxListLen}

AppTargetValues == AppTargetAtoms \cup {Arr(items) : items \in AppTargetLists}

\* A literal key, and a pattern key with the captures "sub" and
\* "node_modules".
AppTargetCalls ==
  { [subpath |-> "", packageSubpath |-> "#a", pattern |-> FALSE],
    [subpath |-> "sub", packageSubpath |-> "#a/*", pattern |-> TRUE],
    [subpath |-> "node_modules", packageSubpath |-> "#a/*", pattern |-> TRUE] }

\* The application with the package "dep" installed.
AppEnv == ImportsEnv(Undefined)

\* resolvePackageTarget as packageExportsResolve (internal = FALSE) and
\* packageImportsResolve (internal = TRUE) call it for the application.
CallResolveAppTarget ==
  /\ pc = "idle"
  /\ \E target \in AppTargetValues, call \in AppTargetCalls, internal \in BOOLEAN :
       Done("resolvePackageTarget(app)",
            [target |-> target, call |-> call, internal |-> internal,
             conditions |-> {"import"}],
            resolvePackageTarget(AppEnv, AppJsonUrl, target, call.subpath,
                                 call.packageSubpath, BaseUrl, call.pattern,
                                 internal, FALSE, {"import"}))


\* Exports maps of pattern keys that a subpath with a trailing slash meets.
TrailingSlashMaps ==
  {Obj(es) : es \in EntrySeqs({ <<"./*", Str("./lib/*.js")>>,
                                <<"./a*", Str("./x/*")>>,
                                <<"./a/*", Str("./y/*")>>,
                                <<"./b", Str("./b.js")>> }, MaxKeys)}

\* packageExportsResolve called for two packages with subpaths that end
\* with "/" and one that does not.
CallExportsTrailingSlash ==
  /\ pc = "idle"
  /\ \E exports \in TrailingSlashMaps, subpath \in {"./a/", "./", "./a"},
        pjsonPath \in {PkgJsonPath, DepJsonPath} :
       Done("packageExportsResolve",
            [map |-> exports, name |-> subpath, conditions |-> {"import"},
             pjsonPath |-> pjsonPath],
            packageExportsResolve(ProcessEnv, pathToFileURL(pjsonPath), subpath,
                                  PackageConfig(TRUE, pjsonPath, "pkg", "", exports,
                                                Undefined),
                                  BaseUrl, {"import"}))


\* The directory at depth n below the root: "" (the root), "/a", "/a/b", ...
DirNames == <<"a", "b", "c", "d", "e", "f">>

RECURSIVE DirAt(_)
DirAt(n) == IF n = 0 THEN "" ELSE DirAt(n - 1) \o "/" \o DirNames[n]

WalkBase(depth) == pathToFileURL(DirAt(depth) \o "/index.js")

WalkSpecifiers == {"pkg", "pkg/x.js", "@s/pkg", "@s/pkg/x.js", "@s/.", "@s", "fs"}

\* What is installed in the node_modules directory of a level.
InstalledPackages == {"pkg", "@s/pkg"}

InstalledDir(level, name) == DirAt(level) \o "/node_modules/" \o name

\* The package.json of an installed package: with exports, with main only,
\* or missing.
InstalledKinds == {"exports", "main", "none"}

InstalledConfig(level, name, kind) ==
  PackageConfig(TRUE, InstalledDir(level, name) \o "/package.json", name,
                IF kind = "main" THEN "lib/main.js" ELSE "",
                IF kind = "exports"
                THEN Obj(<< <<".", Str("./main.js")>>, <<"./*", Str("./lib/*")>> >>)
                ELSE Undefined,
                Undefined)

\* The package scope of the base: none, or a package.json in the base's
\* directory with a name and an exports field.
WalkScopes ==
  { [exists |-> FALSE, name |-> "", exports |-> Undefined],
    [exists |-> TRUE, name |-> "pkg", exports |-> Obj(<< <<".", Str("./self.js")>> >>)],
    [exists |-> TRUE, name |-> "@s/pkg", exports |-> Str("./self.js")],
    [exists |-> TRUE, name |-> "pkg", exports |-> Null],
    [exists |-> TRUE, name |-> "fs", exports |-> Str("./self.js")] }

ScopeConfig(depth, scope) ==
  IF scope.exists
  THEN PackageConfig(TRUE, DirAt(depth) \o "/package.json", scope.name, "",
                     scope.exports, Undefined)
  ELSE NoConfig(DirAt(depth) \o "/package.json")

\* The file system in which the packages are installed at the given levels.
WalkEnv(depth, levels, kind, scope) ==
  Env({InstalledDir(l, name) : l \in levels, name \in InstalledPackages \cup {"@s"}},
      {InstalledDir(l, name) \o file :
         l \in levels, name \in InstalledPackages,
         file \in {"/index.js", "/lib/main.js"}},
      [p \in {InstalledDir(l, name) \o "/package.json" :
                l \in (IF kind = "none" THEN {} ELSE levels),
                name \in InstalledPackages} |->
         LET l == CHOOSE l \in levels :
                    \E name \in InstalledPackages :
                       p = InstalledDir(l, name) \o "/package.json"
             name == CHOOSE name \in InstalledPackages :
                       p = InstalledDir(l, name) \o "/package.json"
         IN  InstalledConfig(l, name, kind)],
      [p \in {WalkBase(depth).pathname} |-> ScopeConfig(depth, scope)],
      EmptyMap, emittedPackageWarnings)

CallPackageResolve ==
  /\ pc = "idle"
  /\ \E depth \in 0..MaxDepth, specifier \in WalkSpecifiers, kind \in InstalledKinds,
        scope \in WalkScopes, conditions \in ConditionSets :
       \E levels \in SUBSET (0..depth) :
          Done("packageResolve",
               [specifier |-> specifier, depth |-> depth, levels |-> levels,
                kind |-> kind, scope |-> scope, conditions |-> conditions],
               packageResolve(WalkEnv(depth, levels, kind, scope), specifier,
                              WalkBase(depth), conditions))


\* The paths of the file: URLs finalizeResolution is called with.
ResolvedPathnames ==
  { "/app/a.js", "/app/dir", "/app/dir/", "/app/a%20b.js", "/app/a%2Fb.js",
    "/app/a%2fb.js", "/app/a%5Cb.js", "/app/a%5cb.js", "/app/%2e/a.js" }

ResolvedRests == {"", "?q=1"}

\* What the file system holds at the path of the URL (the path without a
\* trailing "/"): a regular file, a directory or nothing.
PathKinds == {"file", "directory", "missing"}

PathOf(pathname) ==
  LET path == PercentDecode(pathname)
  IN  IF StringPrototypeEndsWith(path, "/")
      THEN StringPrototypeSlice(path, 0, Len(path) - 1) ELSE path

\* The file system of a call: its root, the path of the URL, and the real
\* path behind it when the path is a symbolic link.
FinalizeEnv(pathname, kind, linked) ==
  Env({"/"} \cup (IF kind = "directory" THEN {PathOf(pathname)} ELSE {}),
      IF kind = "file" THEN {PathOf(pathname)} ELSE {},
      EmptyMap, EmptyMap,
      IF linked THEN [p \in {PathOf(pathname)} |-> "/real" \o PathOf(pathname)]
      ELSE EmptyMap,
      emittedPackageWarnings)

CallFinalizeResolution ==
  /\ pc = "idle"
  /\ \E pathname \in ResolvedPathnames, rest \in ResolvedRests, kind \in PathKinds,
        linked \in BOOLEAN, preserveSymlinks \in BOOLEAN :
       Done("finalizeResolution",
            [resolved |-> URLOf("file:", pathname, rest), kind |-> kind,
             linked |-> linked, preserveSymlinks |-> preserveSymlinks],
            finalizeResolution(FinalizeEnv(pathname, kind, linked),
                               URLOf("file:", pathname, rest), BaseUrl,
                               preserveSymlinks))


\* The specifiers defaultResolve is called with: relative and absolute
\* paths, one that no base makes a URL, URLs of each scheme, a built-in, a
\* package and an imports name.
DefaultSpecifiers ==
  { "./z.js", "../z.js", "/app/z.js", "./dir", "//[", "data:text/javascript,1",
    "node:fs", "fs", "dep", "#a", "https://h/x.js", "http://h/../x.js",
    "file:///app/z.js", "blob:nodedata:1" }

ParentURLs ==
  { Undefined, Str("file:///app/index.js"), Str("https://x/y"),
    Str("http://x/d/y.js") }

\* The file system of a call of defaultResolve: the package "dep", the
\* directory /app/dir and, when present, the files the specifiers name.
DefaultEnv(present) ==
  Env({"/", "/app", "/app/dir", "/app/node_modules/dep"},
      IF present
      THEN {"/app/z.js", "/z.js", "/app/a.js", "/app/node_modules/dep/index.js"}
      ELSE {},
      [p \in {DepJsonPath} |-> DepConfig],
      [p \in {"/app/index.js", "/app/"} |->
         AppConfig(Obj(<< <<"#a", Str("./a.js")>> >>))],
      EmptyMap, emittedPackageWarnings)

CallDefaultResolve ==
  /\ pc = "idle"
  /\ \E specifier \in DefaultSpecifiers, parentURL \in ParentURLs,
        experimentalNetworkImports \in BOOLEAN, typeFlag \in BOOLEAN,
        preserveSymlinks \in BOOLEAN, present \in BOOLEAN :
       \E env \in {DefaultEnv(present)},
          options \in {Options(experimentalNetworkImports, typeFlag,
                               preserveSymlinks, preserveSymlinks)} :
         Done("defaultResolve",
              [specifier |-> specifier, parentURL |-> parentURL,
               experimentalNetworkImports |-> experimentalNetworkImports,
               typeFlag |-> typeFlag, preserveSymlinks |-> preserveSymlinks,
               present |-> present],
              defaultResolve(env, options, specifier, parentURL, {"import", "node"}))


Return ==
  /\ pc = "done"
  /\ pc' = "idle"
  /\ op' = ""
  /\ args' = NoArgs
  /\ ret' = NoOutcome
  /\ UNCHANGED emittedPackageWarnings

NextMaps == CallPackageExportsResolve \/ CallPackageImportsResolve \/ Return

\* The exports and imports resolvers, called in any order.
SpecMaps == Init /\ [][NextMaps]_vars

NextTarget == CallResolvePackageTarget \/ Return

\* resolvePackageTarget, called on its own.
SpecTarget == Init /\ [][NextTarget]_vars

NextAppTarget == CallResolveAppTarget \/ Return

\* resolvePackageTarget, called for targets of the application.
SpecAppTarget == Init /\ [][NextAppTarget]_vars

NextDeprecation == CallExportsTrailingSlash \/ Return

\* packageExportsResolve, called again and again in one process.
SpecDeprecation == Init /\ [][NextDeprecation]_vars

NextWalk == CallPackageResolve \/ Return

\* packageResolve, called on its own.
SpecWalk == Init /\ [][NextWalk]_vars

NextFinalize == CallFinalizeResolution \/ Return

\* finalizeResolution, called on its own.
SpecFinalize == Init /\ [][NextFinalize]_vars

NextDefault == CallDefaultResolve \/ Return

\* defaultResolve, called on its own.
SpecDefault == Init /\ [][NextDefault]_vars

Next ==
  \/ CallDefaultResolve
  \/ CallPackageExportsResolve
  \/ CallPackageImportsResolve
  \/ CallResolvePackageTarget
  \/ CallResolveAppTarget
  \/ CallExportsTrailingSlash
  \/ CallPackageResolve
  \/ CallFinalizeResolution
  \/ Return

Spec == Init /\ [][Next]_vars

(***************************************************************************)
(* Definitions the claims are stated with.                                 *)
(***************************************************************************)
Called(name) == pc = "done" /\ op = name

LastVisited == ret.visited[Len(ret.visited)]

\* The part of a returned path below the package directory.
BelowPackage(pathname, dir) == SliceFrom(pathname, Len(dir))

HasNodeModulesSegment(text) ==
  \E i \in 1..Len(Segments(text)) :
     LowerCase(PercentDecode(Segments(text)[i])) = "node_modules"

(***************************************************************************)
(* C1.  Package boundary: every URL packageExportsResolve returns has a    *)
(* path that starts with the path of the directory of the package.json it  *)
(* was resolved against, also after the capture has replaced '*'.          *)
(* The code checks the boundary before the substitution only.              *)
(***************************************************************************)
C1_PackageBoundary ==
  (Called("packageExportsResolve") /\ ret.k = "url")
    => StringPrototypeStartsWith(ret.url.pathname, PkgDir)

(***************************************************************************)
(* C2.  Invalid segments never reach a resolved URL: a './' target whose   *)
(* remainder has a segment '.', '..' or 'node_modules' fails with          *)
(* InvalidPackageTarget, a capture with such a segment fails with          *)
(* InvalidModuleSpecifier, and so no URL returned for a './' target has a  *)
(* node_modules segment below the package directory.  The code validates   *)
(* the target and the capture apart, never the text they form together.    *)
(***************************************************************************)
C2_NoInvalidSegment ==
  (/\ pc = "done"
   /\ op \in {"packageExportsResolve", "packageImportsResolve"}
   /\ ret.visited # <<>>
   /\ StringPrototypeStartsWith(LastVisited.target, "./"))
    => LET v == LastVisited
           dir == NewURL(".", pathToFileURL(
                    IF op = "packageExportsResolve" THEN PkgJsonPath
                    ELSE AppJsonPath)).pathname
       IN  /\ deprecatedInvalidSegmentRegEx(SliceFrom(v.target, 2))
             => (ret.k = "throw" /\ ret.code = "ERR_INVALID_PACKAGE_TARGET")
           /\ (/\ ~deprecatedInvalidSegmentRegEx(SliceFrom(v.target, 2))
               /\ v.subpath # ""
               /\ deprecatedInvalidSegmentRegEx(v.subpath))
             => (ret.k = "throw" /\ ret.code = "ERR_INVALID_MODULE_SPECIFIER")
           /\ (ret.k = "url" /\ StringPrototypeStartsWith(ret.url.pathname, dir))
             => ~HasNodeModulesSegment(BelowPackage(ret.url.pathname, dir))

(***************************************************************************)
(* The pattern rule as the specification words it, on sets of keys.        *)
(***************************************************************************)
StarCount(key) == Cardinality({i \in 1..Len(key) : At(key, i) = "*"})

StarAt(key) == CHOOSE i \in 1..Len(key) : At(key, i) = "*"

KeyPrefix(key) == SubSeq(key, 1, StarAt(key) - 1)

KeySuffix(key) == SubSeq(key, StarAt(key) + 1, Len(key))

KeyMatches(key, q) ==
  /\ StarCount(key) = 1
  /\ Len(q) >= Len(key)
  /\ SubSeq(q, 1, Len(KeyPrefix(key))) = KeyPrefix(key)
  /\ SubSeq(q, Len(q) - Len(KeySuffix(key)) + 1, Len(q)) = KeySuffix(key)

MatchingKeys(map, q) ==
  {Keys(map)[i] : i \in {j \in 1..Len(Keys(map)) : KeyMatches(Keys(map)[j], q)}}

Outranks(k1, k2) ==
  \/ Len(KeyPrefix(k1)) > Len(KeyPrefix(k2))
  \/ Len(KeyPrefix(k1)) = Len(KeyPrefix(k2)) /\ Len(k1) > Len(k2)

BestKeys(map, q) ==
  {k \in MatchingKeys(map, q) : \A k2 \in MatchingKeys(map, q) \ {k} : Outranks(k, k2)}

CaptureOf(key, q) ==
  SubSeq(q, Len(KeyPrefix(key)) + 1, Len(q) - Len(KeySuffix(key)))

IsConditionKey(key) == key = "" \/ At(key, 1) # "."

AllConditionKeys(exports) ==
  exports.t = "object" /\ \A i \in 1..Len(Keys(exports)) : IsConditionKey(Keys(exports)[i])

MixedKeys(exports) ==
  /\ exports.t = "object"
  /\ \E i \in 1..Len(Keys(exports)) : IsConditionKey(Keys(exports)[i])
  /\ \E i \in 1..Len(Keys(exports)) : ~IsConditionKey(Keys(exports)[i])

IsSugar(exports) == exports.t \in {"string", "array"} \/ AllConditionKeys(exports)

\* The subpath map an exports value stands for.
SubpathMap(exports) ==
  IF IsSugar(exports) THEN Obj(<< <<".", exports>> >>) ELSE exports

\* The call just made reached the pattern scan of its map.
ScansExports ==
  /\ Called("packageExportsResolve")
  /\ ~MixedKeys(args.map)
  /\ ~(/\ HasOwnProperty(SubpathMap(args.map), args.name)
       /\ StarCount(args.name) = 0
       /\ ~StringPrototypeEndsWith(args.name, "/"))

ScansImports ==
  /\ Called("packageImportsResolve")
  /\ args.map.t = "object"
  /\ args.name # "#"
  /\ ~StringPrototypeStartsWith(args.name, "#/")
  /\ ~StringPrototypeEndsWith(args.name, "/")
  /\ ~(HasOwnProperty(args.map, args.name) /\ StarCount(args.name) = 0)

ScannedMap ==
  IF op = "packageExportsResolve" THEN SubpathMap(args.map) ELSE args.map

NoMatchCode ==
  IF op = "packageExportsResolve" THEN "ERR_PACKAGE_PATH_NOT_EXPORTED"
  ELSE "ERR_PACKAGE_IMPORT_NOT_DEFINED"

(***************************************************************************)
(* C3.  Pattern best match: for a query that no literal key serves, the    *)
(* key the scan selects is, among the keys with exactly one '*' that match *)
(* the query, the one with the longest prefix, ties broken by the longest  *)
(* key, and the capture is the text between prefix and suffix; the         *)
(* selection depends on the set of keys only, not on their order.          *)
(***************************************************************************)
C3_PatternBestMatch ==
  (ScansExports \/ ScansImports)
    => LET matching == MatchingKeys(ScannedMap, args.name)
           best == BestKeys(ScannedMap, args.name)
       IN  IF matching = {}
           THEN ret.k = "throw" /\ ret.code = NoMatchCode /\ ret.visited = <<>>
           ELSE /\ Cardinality(best) = 1
                /\ ret.visited # <<>>
                /\ \A k \in best :
                     /\ ret.visited[1].match = k
                     /\ ret.visited[1].subpath = CaptureOf(k, args.name)
                     /\ ret.visited[1].pattern
                     /\ ret.visited[1].target = Get(ScannedMap, k).s

\* Two keys with the same prefix match and the longer one is selected,
\* though the shorter one comes later in the map.
C3_Witness ==
  /\ ScansExports
  /\ args.name = "./ab.js"
  /\ {"./a*", "./a*.js"} \subseteq MatchingKeys(ScannedMap, args.name)
  /\ Keys(ScannedMap)[Len(Keys(ScannedMap))] = "./a*"
  /\ ret.k = "url"
  /\ ret.visited[1].match = "./a*.js"

(***************************************************************************)
(* C6.  Literal key priority in exports: when the subpath map has a key    *)
(* equal to the subpath, and the subpath has no '*' and no trailing '/',   *)
(* that key's target is resolved with an empty capture and no pattern key  *)
(* is consulted; a Null or Undefined result is PackageSubpathNotExported,  *)
(* and so is a subpath that neither a literal nor a pattern key matches.   *)
(***************************************************************************)
C6_LiteralKeyPriority ==
  (Called("packageExportsResolve") /\ ~MixedKeys(args.map))
    => LET map == SubpathMap(args.map)
           q == args.name
           literal == /\ HasOwnProperty(map, q)
                      /\ StarCount(q) = 0
                      /\ ~StringPrototypeEndsWith(q, "/")
           direct == resolvePackageTarget(ProcessEnv, PkgJsonUrl, Get(map, q), "", q,
                                          BaseUrl, FALSE, FALSE, FALSE, args.conditions)
           notExported == ret.k = "throw" /\ ret.code = "ERR_PACKAGE_PATH_NOT_EXPORTED"
       IN  /\ literal =>
                /\ ret.visited = direct.visited
                /\ \A i \in 1..Len(ret.visited) :
                     /\ ret.visited[i].match = q
                     /\ ret.visited[i].subpath = ""
                     /\ ~ret.visited[i].pattern
                /\ IF direct.k \in {"null", "undefined"} THEN notExported
                   ELSE ret.k = direct.k /\ ret.url = direct.url /\ ret.code = direct.code
           /\ (~literal /\ MatchingKeys(map, q) = {}) => notExported

\* The literal key "./a" is blocked by Null while the pattern key "./*"
\* matches the subpath too: the resolve fails and "./*" is not consulted.
C6_Witness ==
  /\ Called("packageExportsResolve")
  /\ args.name = "./a"
  /\ HasOwnProperty(args.map, "./a")
  /\ Get(args.map, "./a") = Null
  /\ "./*" \in MatchingKeys(args.map, "./a")
  /\ ret.k = "throw"
  /\ ret.code = "ERR_PACKAGE_PATH_NOT_EXPORTED"
  /\ ret.visited = <<>>

(***************************************************************************)
(* C7.  Conditional main sugar: an exports value that is a string, a list  *)
(* or a map whose keys all do not start with '.' is resolved as the map    *)
(* {".": exports}: subpath "." resolves the value, every other subpath is  *)
(* PackageSubpathNotExported.  A map with a key that starts with '.' and   *)
(* a key that does not is InvalidPackageConfig for every subpath, before   *)
(* any target is resolved.                                                 *)
(***************************************************************************)
C7_ConditionalMainSugar ==
  Called("packageExportsResolve")
    => LET direct == ExportsResult(
                       resolvePackageTarget(ProcessEnv, PkgJsonUrl, args.map, "", ".",
                                            BaseUrl, FALSE, FALSE, FALSE,
                                            args.conditions))
       IN  /\ (IsSugar(args.map) /\ args.name = ".") =>
                /\ ret.k = direct.k
                /\ ret.url = direct.url
                /\ ret.code = direct.code
                /\ ret.visited = direct.visited
           /\ (IsSugar(args.map) /\ args.name # ".") =>
                /\ ret.k = "throw"
                /\ ret.code = "ERR_PACKAGE_PATH_NOT_EXPORTED"
                /\ ret.visited = <<>>
           /\ MixedKeys(args.map) =>
                /\ ret.k = "throw"
                /\ ret.code = "ERR_INVALID_PACKAGE_CONFIG"
                /\ ret.visited = <<>>

\* A map of condition keys only serves "." through its applicable key.
C7_Witness ==
  /\ Called("packageExportsResolve")
  /\ args.map.t = "object"
  /\ Len(Keys(args.map)) = 2
  /\ AllConditionKeys(args.map)
  /\ args.name = "."
  /\ ret.k = "url"
  /\ ret.url.pathname = "/app/node_modules/pkg/i.js"

(***************************************************************************)
(* Map and list targets.                                                   *)
(***************************************************************************)
\* The outcome of resolving one target with the arguments of the call of
\* resolvePackageTarget in progress.
OutcomeOf(target) ==
  resolvePackageTarget(ProcessEnv, PkgJsonUrl, target, args.call.subpath,
                       args.call.packageSubpath, BaseUrl, args.call.pattern,
                       FALSE, FALSE, args.conditions)

SameResult(o1, o2) == o1.k = o2.k /\ o1.url = o2.url /\ o1.code = o2.code

ResolvesMap == Called("resolvePackageTarget") /\ args.target.t = "object"

MapEntries == args.target.entries

HasNumericKey == \E i \in 1..Len(MapEntries) : isArrayIndex(MapEntries[i][1])

ApplicableKey(i) ==
  MapEntries[i][1] = "default" \/ MapEntries[i][1] \in args.conditions

\* The outcomes of resolving the values of the map's keys, one by one.
KeyOutcomes == [i \in 1..Len(MapEntries) |-> OutcomeOf(MapEntries[i][2])]

\* The applicable keys whose value does not resolve to Undefined.
SelectableKeys(outcomes) ==
  {i \in 1..Len(MapEntries) : ApplicableKey(i) /\ outcomes[i].k # "undefined"}

First(S) == CHOOSE i \in S : \A j \in S : i <= j

Last(S) == CHOOSE i \in S : \A j \in S : j <= i

\* What resolving the applicable keys from key i to key n visits, in
\* insertion order.
RECURSIVE MapVisits(_, _, _)
MapVisits(outcomes, i, n) ==
  IF i > n THEN <<>>
  ELSE (IF ApplicableKey(i) THEN outcomes[i].visited ELSE <<>>)
         \o MapVisits(outcomes, i + 1, n)

\* C4: resolving a map target (one without numeric keys, which are rejected
\* before any key is looked at) resolves, in insertion order, only keys that
\* are "default" or in the condition set, and its outcome is the outcome of
\* the first such key whose value does not resolve to Undefined; when there
\* is no such key the result is Undefined.  The string targets visited are
\* exactly those of the applicable keys up to the selected one, so no other
\* key is resolved.
C4_ConditionalMapSelection ==
  (ResolvesMap /\ ~HasNumericKey) =>
    \A outcomes \in {KeyOutcomes} :
      \A selectable \in {SelectableKeys(outcomes)} :
        IF selectable = {}
        THEN /\ ret.k = "undefined"
             /\ ret.visited = MapVisits(outcomes, 1, Len(MapEntries))
        ELSE /\ SameResult(ret, outcomes[First(selectable)])
             /\ ret.visited = MapVisits(outcomes, 1, First(selectable))

\* A map of two applicable keys: the first resolves to Undefined, and the
\* URL of the second is returned.
C4_Witness ==
  /\ ResolvesMap
  /\ ~HasNumericKey
  /\ Len(MapEntries) = 2
  /\ ApplicableKey(1)
  /\ ApplicableKey(2)
  /\ OutcomeOf(MapEntries[1][2]).k = "undefined"
  /\ ret.k = "url"
  /\ ret.url = OutcomeOf(MapEntries[2][2]).url

ResolvesList == Called("resolvePackageTarget") /\ args.target.t = "array"

ListItems == args.target.items

IsInvalidPackageTarget(o) == o.k = "throw" /\ o.code = "ERR_INVALID_PACKAGE_TARGET"

ItemOutcomes == [i \in 1..Len(ListItems) |-> OutcomeOf(ListItems[i])]

UrlItems(outcomes) == {i \in 1..Len(ListItems) : outcomes[i].k = "url"}

\* The elements the loop reaches: those up to the first that resolves to a
\* URL, or all of them.
ReachedItems(outcomes) ==
  {i \in 1..Len(ListItems) :
     UrlItems(outcomes) # {} => i <= First(UrlItems(outcomes))}

\* The elements reached whose outcome was Null or InvalidPackageTarget.
RememberedItems(outcomes) ==
  {i \in ReachedItems(outcomes) :
     outcomes[i].k = "null" \/ IsInvalidPackageTarget(outcomes[i])}

\* Every element reached resolves to a URL, Null or Undefined or fails with
\* InvalidPackageTarget.
ItemsResolveOrAreInvalid(outcomes) ==
  \A i \in ReachedItems(outcomes) :
     outcomes[i].k = "throw" => IsInvalidPackageTarget(outcomes[i])

\* C5: resolving a list target whose elements resolve or fail with
\* InvalidPackageTarget returns the URL of the first element that resolves
\* to a URL; without such an element the result is Null for the empty list
\* and when the last element that was Null or InvalidPackageTarget was
\* Null, Undefined when every element was Undefined, and otherwise the
\* InvalidPackageTarget error of the last failing element is thrown.
C5_ListAlternatives ==
  ResolvesList =>
    \A outcomes \in {ItemOutcomes} :
      \A urls \in {UrlItems(outcomes)}, remembered \in {RememberedItems(outcomes)} :
        ItemsResolveOrAreInvalid(outcomes) =>
          IF urls # {}
          THEN ret.k = "url" /\ ret.url = outcomes[First(urls)].url
          ELSE IF ListItems = <<>> THEN ret.k = "null"
          ELSE IF remembered = {} THEN ret.k = "undefined"
          ELSE IF outcomes[Last(remembered)].k = "null" THEN ret.k = "null"
          ELSE ret.k = "throw" /\ ret.code = "ERR_INVALID_PACKAGE_TARGET"

\* A list whose first element fails with InvalidPackageTarget and whose
\* second element is Null: the result is Null.
C5_Witness ==
  /\ ResolvesList
  /\ Len(ListItems) = 2
  /\ IsInvalidPackageTarget(OutcomeOf(ListItems[1]))
  /\ OutcomeOf(ListItems[2]).k = "null"
  /\ ret.k = "null"

\* The position of the key "default" in the map, if it has one.
DefaultKeys == {i \in 1..Len(MapEntries) : MapEntries[i][1] = "default"}

\* The keys other than "default" that are in the condition set and whose
\* value resolves to a URL.
OtherUrlKeys(outcomes) ==
  {i \in 1..Len(MapEntries) :
     /\ MapEntries[i][1] # "default"
     /\ MapEntries[i][1] \in args.conditions
     /\ outcomes[i].k = "url"}

\* C14 as stated: in a map with a key "default" and another key that is in
\* the condition set and resolves to a URL, the URL of such another key is
\* returned whatever the position of "default".
C14_DefaultMatchesLast ==
  (ResolvesMap /\ ~HasNumericKey /\ DefaultKeys # {}) =>
    \A outcomes \in {KeyOutcomes} :
      \A others \in {OtherUrlKeys(outcomes)} :
        others # {} =>
          /\ ret.k = "url"
          /\ \E i \in others : ret.url = outcomes[i].url

\* C14: the key "default" applies in every condition set and is tried at
\* its own position in insertion order: when an applicable key before it
\* yields a result other than Undefined that result is the outcome and
\* "default" is not resolved; otherwise, when the value of "default" yields
\* a result other than Undefined, that result is the outcome, also when a
\* later key in the condition set would resolve to a URL.
C14_DefaultAtItsPosition ==
  (ResolvesMap /\ ~HasNumericKey /\ DefaultKeys # {}) =>
    \A outcomes \in {KeyOutcomes}, d \in DefaultKeys :
      \A before \in {{i \in 1..(d - 1) : ApplicableKey(i) /\ outcomes[i].k # "undefined"}} :
        IF before # {}
        THEN /\ SameResult(ret, outcomes[First(before)])
             /\ ret.visited = MapVisits(outcomes, 1, First(before))
        ELSE outcomes[d].k # "undefined" =>
               /\ SameResult(ret, outcomes[d])
               /\ ret.visited = MapVisits(outcomes, 1, d)

\* "default" comes first and resolves to a URL, the key "import" after it
\* is in the condition set and resolves to another URL: the URL of
\* "default" is returned.
C14_Witness ==
  /\ ResolvesMap
  /\ Len(MapEntries) = 2
  /\ MapEntries[1][1] = "default"
  /\ MapEntries[2][1] = "import"
  /\ "import" \in args.conditions
  /\ OutcomeOf(MapEntries[1][2]).k = "url"
  /\ OutcomeOf(MapEntries[2][2]).k = "url"
  /\ OutcomeOf(MapEntries[1][2]).url # OutcomeOf(MapEntries[2][2]).url
  /\ ret.k = "url"
  /\ ret.url = OutcomeOf(MapEntries[1][2]).url


ResolvesAppTarget == Called("resolvePackageTarget(app)")

AppOutcomeOf(target) ==
  resolvePackageTarget(AppEnv, AppJsonUrl, target, args.call.subpath,
                       args.call.packageSubpath, BaseUrl, args.call.pattern,
                       args.internal, FALSE, args.conditions)

AppItemOutcomes ==
  [i \in 1..Len(args.target.items) |-> AppOutcomeOf(args.target.items[i])]

\* What resolving the elements i to n of a list visits.
RECURSIVE ListVisits(_, _, _)
ListVisits(outcomes, i, n) ==
  IF i > n THEN <<>> ELSE outcomes[i].visited \o ListVisits(outcomes, i + 1, n)

\* The elements that fail with an error other than InvalidPackageTarget.
FailingItems(outcomes) ==
  {i \in 1..Len(outcomes) :
     outcomes[i].k = "throw" /\ ~IsInvalidPackageTarget(outcomes[i])}

\* C15: when an element of a list target fails with an error other than
\* InvalidPackageTarget, and no element before it resolves to a URL, the
\* resolution of the list fails with that error and no element after it
\* is resolved.
C15_OnlyInvalidTargetRecovered ==
  (ResolvesAppTarget /\ args.target.t = "array") =>
    \A outcomes \in {AppItemOutcomes} :
      \A failing \in {FailingItems(outcomes)} :
        \A urls \in {{i \in 1..Len(outcomes) : outcomes[i].k = "url"}} :
          (failing # {} /\ (urls # {} => First(failing) < First(urls))) =>
            /\ ret.k = "throw"
            /\ ret.code = outcomes[First(failing)].code
            /\ ret.visited = ListVisits(outcomes, 1, First(failing))

\* An imports list whose first element names a package that is not
\* installed and whose second element resolves to a URL: the list fails
\* with ModuleNotFound and the second element is not visited.
C15_Witness ==
  /\ ResolvesAppTarget
  /\ args.target.t = "array"
  /\ args.internal
  /\ Len(args.target.items) = 2
  /\ args.target.items[1] = Str("x.js")
  /\ AppOutcomeOf(args.target.items[2]).k = "url"
  /\ ret.k = "throw"
  /\ ret.code = "ERR_MODULE_NOT_FOUND"
  /\ Len(ret.visited) = 1


\* The text with each '*' replaced by the capture.
RECURSIVE StarsReplaced(_, _)
StarsReplaced(text, capture) ==
  IF StarCount(text) = 0 THEN text
  ELSE LET last == CHOOSE i \in 1..Len(text) :
                     At(text, i) = "*" /\ \A j \in (i + 1)..Len(text) : At(text, j) # "*"
       IN  StarsReplaced(SubSeq(text, 1, last - 1), capture) \o capture
             \o SubSeq(text, last + 1, Len(text))

\* C16: a string target that does not start with "./" fails with
\* InvalidPackageTarget in exports resolution; in imports resolution it
\* fails with InvalidPackageTarget when it starts with "../" or "/" or
\* parses as a URL, and otherwise the result is that of packageResolve for
\* the target, with every '*' replaced by the capture in pattern mode, and
\* the URL of the package.json as the base.
C16_TargetsOutsideDotSlash ==
  (ResolvesAppTarget /\ args.target.t = "string"
     /\ ~StringPrototypeStartsWith(args.target.s, "./")) =>
    IF \/ ~args.internal
       \/ StringPrototypeStartsWith(args.target.s, "../")
       \/ StringPrototypeStartsWith(args.target.s, "/")
       \/ URLCanParse(args.target.s)
    THEN ret.k = "throw" /\ ret.code = "ERR_INVALID_PACKAGE_TARGET"
    ELSE \A resolved \in
           {packageResolve(AppEnv,
                           IF args.call.pattern
                           THEN StarsReplaced(args.target.s, args.call.subpath)
                           ELSE args.target.s,
                           AppJsonUrl, args.conditions)} :
           /\ SameResult(ret, resolved)
           /\ ret.visited = <<[target |-> args.target.s, subpath |-> args.call.subpath,
                               match |-> args.call.packageSubpath,
                               pattern |-> args.call.pattern]>> \o resolved.visited
           /\ ret.probes = resolved.probes

\* The imports target "dep/*/*" of a pattern key with the capture "sub": the
\* result is the URL packageResolve gives for "dep/sub/sub".
C16_Witness ==
  /\ ResolvesAppTarget
  /\ args.internal
  /\ args.target = Str("dep/*/*")
  /\ args.call.pattern
  /\ args.call.subpath = "sub"
  /\ ret.k = "url"
  /\ ret.url = packageResolve(AppEnv, "dep/sub/sub", AppJsonUrl, args.conditions).url


(***************************************************************************)
(* The trailing-slash deprecation.                                         *)
(***************************************************************************)
IsTrailingSlashWarning(w) == StringPrototypeStartsWith(w, "DEP0155|")

\* The DEP0155 warnings among the warnings of a call, in order.
TrailingSlashWarnings(warns) == SelectSeq(warns, IsTrailingSlashWarning)

\* Some pattern key of the map has a prefix the subpath starts with.
MeetsPatternKey(map, subpath) ==
  \E i \in 1..Len(Keys(map)) :
     /\ StarCount(Keys(map)[i]) >= 1
     /\ StringPrototypeStartsWith(subpath, KeyPrefix(Keys(map)[i]))

\* C17: over every sequence of resolves in one process, a resolve whose
\* subpath ends with "/" and meets a pattern key emits DEP0155 exactly once
\* when the pair (package.json path, subpath) is not yet in the set of
\* emitted warnings, however many pattern keys it meets, and adds the pair
\* to the set; when the pair is in the set already it emits nothing and
\* the set stays as it was; no other resolve emits it or changes the set.
C17_DeprecationDedup ==
  [][pc' = "done" =>
       \A pair \in {args'.pjsonPath \o "|" \o args'.name} :
         IF /\ StringPrototypeEndsWith(args'.name, "/")
            /\ MeetsPatternKey(args'.map, args'.name)
         THEN /\ TrailingSlashWarnings(ret'.warns) =
                   IF pair \in emittedPackageWarnings THEN <<>>
                   ELSE <<"DEP0155|" \o pair>>
              /\ emittedPackageWarnings' = emittedPackageWarnings \cup {pair}
         ELSE /\ TrailingSlashWarnings(ret'.warns) = <<>>
              /\ emittedPackageWarnings' = emittedPackageWarnings]_vars

\* A resolve of "./a/" that meets two pattern keys, in a process that has
\* emitted the warning for this pair and for another one: it emits
\* nothing.
C17_Witness ==
  /\ Called("packageExportsResolve")
  /\ args.name = "./a/"
  /\ Cardinality({i \in 1..Len(Keys(args.map)) :
                    /\ StarCount(Keys(args.map)[i]) >= 1
                    /\ StringPrototypeStartsWith(args.name, KeyPrefix(Keys(args.map)[i]))}) = 2
  /\ TrailingSlashWarnings(ret.warns) = <<>>
  /\ (args.pjsonPath \o "|" \o args.name) \in emittedPackageWarnings
  /\ Cardinality(emittedPackageWarnings) >= 2


(***************************************************************************)
(* Bare specifiers.                                                        *)
(***************************************************************************)
ResolvesPackage == Called("packageResolve")

ParsedName == parsePackageName(args.specifier)

CalledEnv == WalkEnv(args.depth, args.levels, args.kind, args.scope)

\* The package scope of the base has the name asked for and exports.
SelfResolves ==
  /\ args.scope.exists
  /\ args.scope.exports.t \notin {"null", "undefined"}
  /\ args.scope.name = ParsedName.packageName

\* The specifier is not a built-in and its package name is valid.
NamesPackage == args.specifier \notin Builtins /\ ParsedName.valid

\* <dir>/node_modules/<name> for the directory at a level, written without
\* dot segments.
CandidateDir(level) ==
  LET pathname == NewURL("./node_modules/" \o ParsedName.packageName \o "/",
                         pathToFileURL(DirAt(level) \o "/index.js")).pathname
  IN  StringPrototypeSlice(pathname, 0, Len(pathname) - 1)

\* The candidates of the base's directory and of each parent up to the root.
Candidates == [i \in 1..(args.depth + 1) |-> CandidateDir(args.depth + 1 - i)]

\* C8: for a bare specifier that is not a built-in and is not self-resolved
\* packageResolve probes <dir>/node_modules/<name> for the base's directory
\* and then each parent directory up to the root, in that order, for scoped
\* and unscoped names alike; it stops at the first candidate that exists,
\* and throws ModuleNotFound when none exists.
C8_PackageWalk ==
  (ResolvesPackage /\ NamesPackage /\ ~SelfResolves) =>
    \A candidates \in {Candidates} :
      \A existing \in {{i \in 1..Len(candidates) : candidates[i] \in CalledEnv.dirs}} :
        IF existing = {}
        THEN /\ ret.probes = candidates
             /\ ret.k = "throw"
             /\ ret.code = "ERR_MODULE_NOT_FOUND"
        ELSE ret.probes = SubSeq(candidates, 1, First(existing))

\* C9: when the package scope of the base exists, has the parsed package
\* name and has exports, the outcome of packageResolve is the outcome of
\* packageExportsResolve on that package, and no directory is probed.
C9_ResolveSelfFirst ==
  (ResolvesPackage /\ NamesPackage /\ SelfResolves) =>
    /\ SameResult(ret,
                  packageExportsResolve(
                    CalledEnv, pathToFileURL(DirAt(args.depth) \o "/package.json"),
                    ParsedName.packageSubpath, ScopeConfig(args.depth, args.scope),
                    WalkBase(args.depth), args.conditions))
    /\ ret.probes = <<>>

\* ResolveSelf applies, the exports resolver fails, and the package is
\* also installed in the node_modules directory next to the base.
C9_Witness ==
  /\ ResolvesPackage
  /\ NamesPackage
  /\ SelfResolves
  /\ CandidateDir(args.depth) \in CalledEnv.dirs
  /\ ret.k = "throw"
  /\ ret.code = "ERR_PACKAGE_PATH_NOT_EXPORTED"


(***************************************************************************)
(* Finalization.                                                           *)
(***************************************************************************)
Finalizes == Called("finalizeResolution")

FinalizedEnv == FinalizeEnv(args.resolved.pathname, args.kind, args.linked)

\* The text holds "%2F" or "%5C", in either letter case.
HasEncodedSeparator(text) ==
  \E i \in 1..(Len(text) - 2) :
     /\ At(text, i) = "%"
     /\ \/ At(text, i + 1) = "2" /\ At(text, i + 2) \in {"F", "f"}
        \/ At(text, i + 1) = "5" /\ At(text, i + 2) \in {"C", "c"}

DefaultResolves == Called("defaultResolve")

HasScheme(text, scheme) ==
  StringPrototypeStartsWith(LowerCase(text), scheme)

\* The parent of the call is an http: or https: URL.
RemoteParent ==
  /\ args.parentURL.t = "string"
  /\ HasScheme(args.parentURL.s, "http://") \/ HasScheme(args.parentURL.s, "https://")

\* The parent of the call is undefined or a file: URL.
LocalParent ==
  \/ args.parentURL.t = "undefined"
  \/ args.parentURL.t = "string" /\ HasScheme(args.parentURL.s, "file://")

RemoteHref(href) == HasScheme(href, "http://") \/ HasScheme(href, "https://")

\* C11: with a parent URL of scheme http: or https:, defaultResolve rejects
\* with NetworkImportDisallowed every specifier that is a file:, data: or
\* blob: URL or names a built-in module, and every URL it returns has
\* scheme http: or https:.
C11_NetworkImportGuard ==
  (DefaultResolves /\ RemoteParent) =>
    /\ ret.k = "url" => RemoteHref(ret.href)
    /\ ( \/ HasScheme(args.specifier, "file:")
         \/ HasScheme(args.specifier, "data:")
         \/ HasScheme(args.specifier, "blob:")
         \/ canBeRequiredWithoutScheme(args.specifier) )
         => ret.k = "throw" /\ ret.code = "ERR_NETWORK_IMPORT_DISALLOWED"

\* C12 as stated: for every parent URL and every condition set,
\* defaultResolve of a data: or node: URL returns that URL unchanged and
\* probes nothing.
C12_PassThroughEveryParent ==
  (DefaultResolves
     /\ (HasScheme(args.specifier, "data:") \/ HasScheme(args.specifier, "node:")))
    => /\ ret.k = "url"
       /\ ret.href = args.specifier
       /\ ret.probes = <<>>

\* C12: defaultResolve of a data: or node: URL from the main entry or a
\* file: parent returns that URL unchanged; a node: URL from an http: or
\* https: parent is rejected with NetworkImportDisallowed; in each case
\* nothing is probed and moduleResolve is not entered.
C12_PassThrough ==
  (DefaultResolves
     /\ (HasScheme(args.specifier, "data:") \/ HasScheme(args.specifier, "node:")))
    => /\ LocalParent => ret.k = "url" /\ ret.href = args.specifier
       /\ (RemoteParent /\ HasScheme(args.specifier, "node:"))
            => ret.k = "throw" /\ ret.code = "ERR_NETWORK_IMPORT_DISALLOWED"
       /\ (LocalParent \/ HasScheme(args.specifier, "node:"))
            => ret.probes = <<>> /\ ret.calls = <<>>

\* node:fs asked for from https://x/y: the guard rejects it.
C12_Witness ==
  /\ DefaultResolves
  /\ args.specifier = "node:fs"
  /\ args.parentURL = Str("https://x/y")
  /\ ret.code = "ERR_NETWORK_IMPORT_DISALLOWED"
  /\ ret.probes = <<>>

\* The specifier is an absolute URL of scheme http: or https:.
RemoteSpecifier ==
  /\ RemoteHref(args.specifier)
  /\ ParseURL(args.specifier, NoURL) # NoURL

\* C13: with experimentalNetworkImports disabled, defaultResolve of an
\* absolute http: or https: URL, from a file: parent or as the main entry,
\* ends with an error and never returns that URL.
C13_RemoteSpecifierRejected ==
  (DefaultResolves /\ LocalParent /\ RemoteSpecifier
     /\ ~args.experimentalNetworkImports)
    => ret.k = "throw"

\* C19: with no policy manifest and a parent URL of scheme http: or https:,
\* defaultResolve ends by returning a URL or by throwing without entering
\* moduleResolve, for every specifier: no target of an imports or exports
\* map is resolved and nothing is probed in the file system.
C19_RemoteParentStaysRemote ==
  (DefaultResolves /\ RemoteParent) =>
    /\ ret.k \in {"url", "throw"}
    /\ ret.calls = <<>>
    /\ ret.visited = <<>>
    /\ ret.probes = <<>>

\* The imports name "#a" asked for from https://x/y, with the files it
\* would resolve to present: the call is rejected and nothing is probed.
C19_Witness ==
  /\ DefaultResolves
  /\ args.parentURL = Str("https://x/y")
  /\ args.specifier = "#a"
  /\ args.present
  /\ ret.k = "throw"
  /\ ret.code = "ERR_NETWORK_IMPORT_DISALLOWED"
  /\ ret.calls = <<>>
  /\ ret.probes = <<>>

(***************************************************************************)
(* Captures of the pattern scan.                                           *)
(***************************************************************************)
\* The keys with one '*' whose prefix and suffix put together are the query.
BareKeys(map, q) ==
  {Keys(map)[i] : i \in {j \in 1..Len(Keys(map)) :
     /\ StarCount(Keys(map)[j]) = 1
     /\ KeyPrefix(Keys(map)[j]) \o KeySuffix(Keys(map)[j]) = q}}

\* C18: every target that packageExportsResolve or packageImportsResolve
\* resolves for a pattern key is resolved with a capture of length at least
\* 1, so an empty capture goes with literal keys only (pattern = FALSE),
\* and a key whose prefix and suffix put together are the query is never
\* the key selected.
C18_NonEmptyCapture ==
  (pc = "done" /\ op \in {"packageExportsResolve", "packageImportsResolve"}) =>
    /\ \A i \in 1..Len(ret.visited) :
         /\ ret.visited[i].pattern => Len(ret.visited[i].subpath) >= 1
         /\ ret.visited[i].subpath = "" => ~ret.visited[i].pattern
    /\ (ScansExports \/ ScansImports) =>
         \A i \in 1..Len(ret.visited) :
            ret.visited[i].match \notin BareKeys(ScannedMap, args.name)

\* The subpath "./a.js" and a map with the keys "./a*.js" and "./*": the
\* first would match with an empty capture only, and the second is
\* selected with the capture "a.js".
C18_Witness ==
  /\ ScansExports
  /\ args.name = "./a.js"
  /\ "./a*.js" \in BareKeys(ScannedMap, args.name)
  /\ ret.visited # <<>>
  /\ ret.visited[1].match = "./*"
  /\ ret.visited[1].subpath = "a.js"
  /\ ret.visited[1].pattern

====
